---------------------------- MODULE Spec2Model ----------------------------
(***************************************************************************)
(* A model of const-decoder: the alphabet table (Encoding), the hex and    *)
(* the generic bit-packing state machines, the skip policies (Skipper)     *)
(* and the driver loop Decoder::do_decode.                                 *)
(*                                                                         *)
(* Bytes and characters are their ASCII / u8 codes.  Input positions are   *)
(* 0-based as in the source; a TLA+ sequence s holds byte i at s[i + 1].   *)
(* Option<T> is a sequence: <<>> is None and <<v>> is Some(v).  A panic    *)
(* (compile_panic!, compile_assert!, assert!, an out-of-bounds index) is   *)
(* a value [ok |-> FALSE, err |-> ...] of the operator that raises it.     *)
(***************************************************************************)
EXTENDS Integers, Sequences, FiniteSets, TLC

(***************************************************************************)
(* u8 arithmetic                                                           *)
(***************************************************************************)
RECURSIVE Pow2(_)
Pow2(n) == IF n = 0 THEN 1 ELSE 2 * Pow2(n - 1)

U8 == Pow2(8)

\* u8 `<<`: the bits shifted past bit 7 are dropped.
Shl(x, n) == (x * Pow2(n)) % U8

\* u8 `>>`.
Shr(x, n) == x \div Pow2(n)

\* u8 `+`, kept to the width of the type.
Add(x, y) == (x + y) % U8

None == << >>
Some(v) == << v >>

Ok(v) == [ok |-> TRUE, val |-> v]
Panic(e) == [ok |-> FALSE, err |-> e]

(***************************************************************************)
(* Encoding                                                                *)
(***************************************************************************)
NO_MAPPING == U8 - 1

TABLE_LEN == 128

\* "ABCDEFGHIJKLMNOPQRSTUVWXYZabcdefghijklmnopqrstuvwxyz0123456789+/"
BASE64_ALPHABET ==
    << 65, 66, 67, 68, 69, 70, 71, 72, 73, 74, 75, 76, 77, 78, 79, 80,
       81, 82, 83, 84, 85, 86, 87, 88, 89, 90, 97, 98, 99, 100, 101, 102,
       103, 104, 105, 106, 107, 108, 109, 110, 111, 112, 113, 114, 115, 116,
       117, 118, 119, 120, 121, 122, 48, 49, 50, 51, 52, 53, 54, 55, 56, 57,
       43, 47 >>

\* "ABCDEFGHIJKLMNOPQRSTUVWXYZabcdefghijklmnopqrstuvwxyz0123456789-_"
BASE64_URL_ALPHABET ==
    << 65, 66, 67, 68, 69, 70, 71, 72, 73, 74, 75, 76, 77, 78, 79, 80,
       81, 82, 83, 84, 85, 86, 87, 88, 89, 90, 97, 98, 99, 100, 101, 102,
       103, 104, 105, 106, 107, 108, 109, 110, 111, 112, 113, 114, 115, 116,
       117, 118, 119, 120, 121, 122, 48, 49, 50, 51, 52, 53, 54, 55, 56, 57,
       45, 95 >>

\* The `match alphabet.len()` of Encoding::new; alphabet.len() is the length
\* of the string in bytes.
BitsPerChar(len) ==
    CASE len = 2 -> Ok(1)
      [] len = 4 -> Ok(2)
      [] len = 8 -> Ok(3)
      [] len = 16 -> Ok(4)
      [] len = 32 -> Ok(5)
      [] len = 64 -> Ok(6)
      [] OTHER -> Panic([kind |-> "invalid_alphabet_length", len |-> len])

\* The loop storing `index + 1` for the character at `index`.
RECURSIVE Encoding_new_loop_off_by_one(_, _, _)
Encoding_new_loop_off_by_one(alphabet_bytes, index, table) ==
    IF index >= Len(alphabet_bytes) THEN Ok(table)
    ELSE LET byte == alphabet_bytes[index + 1] IN
         IF ~(byte < TABLE_LEN)
         THEN Panic([kind |-> "non_ascii_alphabet", index |-> index])
         ELSE IF table[byte] # NO_MAPPING
         THEN Panic([kind |-> "duplicate_alphabet_char", ch |-> byte])
         ELSE Encoding_new_loop_off_by_one(alphabet_bytes, index + 1,
                                [table EXCEPT ![byte] = (index + 1) % U8])

\* The loop without the assertion on `table[byte_idx]`: a later occurrence
\* of a character overwrites the earlier one.
RECURSIVE Encoding_new_loop_no_duplicate_check(_, _, _)
Encoding_new_loop_no_duplicate_check(alphabet_bytes, index, table) ==
    IF index >= Len(alphabet_bytes) THEN Ok(table)
    ELSE LET byte == alphabet_bytes[index + 1] IN
         IF ~(byte < TABLE_LEN)
         THEN Panic([kind |-> "non_ascii_alphabet", index |-> index])
         ELSE Encoding_new_loop_no_duplicate_check(alphabet_bytes, index + 1,
                                [table EXCEPT ![byte] = index % U8])

\* The `while index < alphabet_bytes.len()` loop of Encoding::new, from
\* `index` on; `table` is indexed 0..127.
RECURSIVE Encoding_new_loop(_, _, _)
Encoding_new_loop(alphabet_bytes, index, table) ==
    IF index >= Len(alphabet_bytes) THEN Ok(table)
    ELSE LET byte == alphabet_bytes[index + 1] IN
         IF ~(byte < TABLE_LEN)
         THEN Panic([kind |-> "non_ascii_alphabet", index |-> index])
         ELSE IF table[byte] # NO_MAPPING
         THEN Panic([kind |-> "duplicate_alphabet_char", ch |-> byte])
         ELSE Encoding_new_loop(alphabet_bytes, index + 1,
                                [table EXCEPT ![byte] = index % U8])

\* Encoding::new that looks at the characters before the length.
Encoding_new_chars_first(alphabet) ==
    LET table == Encoding_new_loop(alphabet, 0,
                     [b \in 0 .. TABLE_LEN - 1 |-> NO_MAPPING])
        bits_per_char == BitsPerChar(Len(alphabet))
    IN
    IF ~table.ok THEN table
    ELSE IF ~bits_per_char.ok THEN bits_per_char
    ELSE Ok([table |-> table.val, bits_per_char |-> bits_per_char.val])

Encoding_new(alphabet) ==
    LET bits_per_char == BitsPerChar(Len(alphabet)) IN
    IF ~bits_per_char.ok THEN bits_per_char
    ELSE LET table == Encoding_new_loop(alphabet, 0,
                          [b \in 0 .. TABLE_LEN - 1 |-> NO_MAPPING]) IN
         IF ~table.ok THEN table
         ELSE Ok([table |-> table.val, bits_per_char |-> bits_per_char.val])

BASE64 == Encoding_new(BASE64_ALPHABET).val

BASE64_URL == Encoding_new(BASE64_URL_ALPHABET).val

\* lookup without the assertion: the NO_MAPPING entry is returned as a digit.
Encoding_lookup_unchecked(encoding, ascii_char) ==
    IF ~(ascii_char < TABLE_LEN)
    THEN Panic([kind |-> "index_out_of_bounds", ch |-> ascii_char])
    ELSE Ok(encoding.table[ascii_char])

\* Encoding::lookup.  The table has 128 entries and is indexed by the raw
\* byte: a byte >= 128 is an out-of-bounds index.
Encoding_lookup(encoding, ascii_char) ==
    IF ~(ascii_char < TABLE_LEN)
    THEN Panic([kind |-> "index_out_of_bounds", ch |-> ascii_char])
    ELSE LET mapping == encoding.table[ascii_char] IN
         IF mapping = NO_MAPPING
         THEN Panic([kind |-> "unmapped_char", ch |-> ascii_char])
         ELSE Ok(mapping)

(***************************************************************************)
(* HexDecoderState                                                         *)
(***************************************************************************)
\* byte_value without the `+ 10` of the upper-case digits.
HexDecoderState_byte_value_upper_off(val) ==
    CASE 48 <= val /\ val <= 57 -> Ok(val - 48)
      [] 65 <= val /\ val <= 70 -> Ok(val - 65)
      [] 97 <= val /\ val <= 102 -> Ok(val - 97 + 10)
      [] OTHER -> Panic([kind |-> "invalid_hex_digit", ch |-> val])

\* b'0'..=b'9', b'A'..=b'F', b'a'..=b'f'
HexDecoderState_byte_value(val) ==
    CASE 48 <= val /\ val <= 57 -> Ok(val - 48)
      [] 65 <= val /\ val <= 70 -> Ok(val - 65 + 10)
      [] 97 <= val /\ val <= 102 -> Ok(val - 97 + 10)
      [] OTHER -> Panic([kind |-> "invalid_hex_digit", ch |-> val])

HexDecoderState_new == [tag |-> "Hex", pending |-> None]

\* update that puts the new digit above the pending one.
HexDecoderState_update_swapped(self, byte) ==
    LET digit == HexDecoderState_byte_value(byte) IN
    IF ~digit.ok THEN digit
    ELSE IF self.pending # None
         THEN Ok([state |-> [self EXCEPT !.pending = None],
                  output |-> Some(Add(Shl(digit.val, 4), self.pending[1]))])
         ELSE Ok([state |-> [self EXCEPT !.pending = Some(digit.val)],
                  output |-> None])

\* Ok([state, output]) or the panic of byte_value.
HexDecoderState_update(self, byte) ==
    LET digit == HexDecoderState_byte_value(byte) IN
    IF ~digit.ok THEN digit
    ELSE IF self.pending # None
         THEN Ok([state |-> [self EXCEPT !.pending = None],
                  output |-> Some(Add(Shl(self.pending[1], 4), digit.val))])
         ELSE Ok([state |-> [self EXCEPT !.pending = Some(digit.val)],
                  output |-> None])

\* is_final that accepts a pending nibble.
HexDecoderState_is_final_always(self) == TRUE

HexDecoderState_is_final(self) == self.pending = None

(***************************************************************************)
(* CustomDecoderState                                                      *)
(***************************************************************************)
CustomDecoderState_new(tag, table) ==
    [tag |-> tag, table |-> table, partial_byte |-> 0, filled_bits |-> 0]

\* update whose straddling branch keeps `byte % (1 << remaining_bits)`.
CustomDecoderState_update_wrong_rest(self, input_byte) ==
    LET digit == Encoding_lookup(self.table, input_byte) IN
    IF ~digit.ok THEN digit
    ELSE LET byte == digit.val
             bits_per_char == self.table.bits_per_char
         IN
         IF self.filled_bits < 8 - bits_per_char
         THEN Ok([state |-> [self EXCEPT
                      !.partial_byte = Add(Shl(self.partial_byte, bits_per_char), byte),
                      !.filled_bits = Add(self.filled_bits, bits_per_char)],
                  output |-> None])
         ELSE IF self.filled_bits = 8 - bits_per_char
         THEN Ok([state |-> [self EXCEPT !.partial_byte = 0, !.filled_bits = 0],
                  output |-> Some(Add(Shl(self.partial_byte, bits_per_char), byte))])
         ELSE LET remaining_bits == 8 - self.filled_bits
                  new_filled_bits == bits_per_char - remaining_bits
              IN Ok([state |-> [self EXCEPT
                         !.partial_byte = byte % Pow2(remaining_bits),
                         !.filled_bits = new_filled_bits],
                     output |-> Some(Add(Shl(self.partial_byte, remaining_bits),
                                         Shr(byte, new_filled_bits)))])

\* update whose completing branch adds the digit to the unshifted partial byte.
CustomDecoderState_update_no_shift(self, input_byte) ==
    LET digit == Encoding_lookup(self.table, input_byte) IN
    IF ~digit.ok THEN digit
    ELSE LET byte == digit.val
             bits_per_char == self.table.bits_per_char
         IN
         IF self.filled_bits < 8 - bits_per_char
         THEN Ok([state |-> [self EXCEPT
                      !.partial_byte = Add(Shl(self.partial_byte, bits_per_char), byte),
                      !.filled_bits = Add(self.filled_bits, bits_per_char)],
                  output |-> None])
         ELSE IF self.filled_bits = 8 - bits_per_char
         THEN Ok([state |-> [self EXCEPT !.partial_byte = 0, !.filled_bits = 0],
                  output |-> Some(Add(self.partial_byte, byte))])
         ELSE LET remaining_bits == 8 - self.filled_bits
                  new_filled_bits == bits_per_char - remaining_bits
              IN Ok([state |-> [self EXCEPT
                         !.partial_byte = byte % Pow2(new_filled_bits),
                         !.filled_bits = new_filled_bits],
                     output |-> Some(Add(Shl(self.partial_byte, remaining_bits),
                                         Shr(byte, new_filled_bits)))])

\* update whose first branch is taken with `<=`: the byte that the digit
\* completes is kept, not put out.
CustomDecoderState_update_no_flush(self, input_byte) ==
    LET digit == Encoding_lookup(self.table, input_byte) IN
    IF ~digit.ok THEN digit
    ELSE LET byte == digit.val
             bits_per_char == self.table.bits_per_char
         IN
         IF self.filled_bits <= 8 - bits_per_char
         THEN Ok([state |-> [self EXCEPT
                      !.partial_byte = Add(Shl(self.partial_byte, bits_per_char), byte),
                      !.filled_bits = Add(self.filled_bits, bits_per_char)],
                  output |-> None])
         ELSE LET remaining_bits == 8 - self.filled_bits
                  new_filled_bits == bits_per_char - remaining_bits
              IN Ok([state |-> [self EXCEPT
                         !.partial_byte = byte % Pow2(new_filled_bits),
                         !.filled_bits = new_filled_bits],
                     output |-> Some(Add(Shl(self.partial_byte, remaining_bits),
                                         Shr(byte, new_filled_bits)))])

\* update whose third branch shifts the digit by `remaining_bits`.
CustomDecoderState_update_shift_swapped(self, input_byte) ==
    LET digit == Encoding_lookup(self.table, input_byte) IN
    IF ~digit.ok THEN digit
    ELSE LET byte == digit.val
             bits_per_char == self.table.bits_per_char
         IN
         IF self.filled_bits < 8 - bits_per_char
         THEN Ok([state |-> [self EXCEPT
                      !.partial_byte = Add(Shl(self.partial_byte, bits_per_char), byte),
                      !.filled_bits = Add(self.filled_bits, bits_per_char)],
                  output |-> None])
         ELSE IF self.filled_bits = 8 - bits_per_char
         THEN Ok([state |-> [self EXCEPT !.partial_byte = 0, !.filled_bits = 0],
                  output |-> Some(Add(Shl(self.partial_byte, bits_per_char), byte))])
         ELSE LET remaining_bits == 8 - self.filled_bits
                  new_filled_bits == bits_per_char - remaining_bits
              IN Ok([state |-> [self EXCEPT
                         !.partial_byte = byte % Pow2(new_filled_bits),
                         !.filled_bits = new_filled_bits],
                     output |-> Some(Add(Shl(self.partial_byte, remaining_bits),
                                         Shr(byte, remaining_bits)))])

\* update whose second branch leaves the partial byte as it was.
CustomDecoderState_update_no_reset(self, input_byte) ==
    LET digit == Encoding_lookup(self.table, input_byte) IN
    IF ~digit.ok THEN digit
    ELSE LET byte == digit.val
             bits_per_char == self.table.bits_per_char
         IN
         IF self.filled_bits < 8 - bits_per_char
         THEN Ok([state |-> [self EXCEPT
                      !.partial_byte = Add(Shl(self.partial_byte, bits_per_char), byte),
                      !.filled_bits = Add(self.filled_bits, bits_per_char)],
                  output |-> None])
         ELSE IF self.filled_bits = 8 - bits_per_char
         THEN Ok([state |-> [self EXCEPT !.filled_bits = 0],
                  output |-> Some(Add(Shl(self.partial_byte, bits_per_char), byte))])
         ELSE LET remaining_bits == 8 - self.filled_bits
                  new_filled_bits == bits_per_char - remaining_bits
              IN Ok([state |-> [self EXCEPT
                         !.partial_byte = byte % Pow2(new_filled_bits),
                         !.filled_bits = new_filled_bits],
                     output |-> Some(Add(Shl(self.partial_byte, remaining_bits),
                                         Shr(byte, new_filled_bits)))])

\* Ok([state, output]) or the panic of lookup.
CustomDecoderState_update(self, input_byte) ==
    LET digit == Encoding_lookup(self.table, input_byte) IN
    IF ~digit.ok THEN digit
    ELSE LET byte == digit.val
             bits_per_char == self.table.bits_per_char
         IN
         IF self.filled_bits < 8 - bits_per_char
         THEN Ok([state |-> [self EXCEPT
                      !.partial_byte = Add(Shl(self.partial_byte, bits_per_char), byte),
                      !.filled_bits = Add(self.filled_bits, bits_per_char)],
                  output |-> None])
         ELSE IF self.filled_bits = 8 - bits_per_char
         THEN Ok([state |-> [self EXCEPT !.partial_byte = 0, !.filled_bits = 0],
                  output |-> Some(Add(Shl(self.partial_byte, bits_per_char), byte))])
         ELSE LET remaining_bits == 8 - self.filled_bits
                  new_filled_bits == bits_per_char - remaining_bits
              IN Ok([state |-> [self EXCEPT
                         !.partial_byte = byte % Pow2(new_filled_bits),
                         !.filled_bits = new_filled_bits],
                     output |-> Some(Add(Shl(self.partial_byte, remaining_bits),
                                         Shr(byte, new_filled_bits)))])

\* is_final that also wants no bits held.
CustomDecoderState_is_final_strict(self) == self.partial_byte = 0 /\ self.filled_bits = 0

\* is_final that wants fewer bits held than a whole digit has.
CustomDecoderState_is_final_short_tail(self) ==
    self.partial_byte = 0 /\ self.filled_bits < self.table.bits_per_char

\* `filled_bits` is not checked: padding may be implicit.
CustomDecoderState_is_final(self) == self.partial_byte = 0

(***************************************************************************)
(* DecoderState and Decoder                                                *)
(***************************************************************************)
\* update that hands '=' to the Base64 lookup like any other byte.
DecoderState_update_no_padding(self, byte) ==
    CASE self.tag = "Hex" -> HexDecoderState_update(self, byte)
      [] self.tag = "Base64" -> CustomDecoderState_update(self, byte)
      [] self.tag = "Custom" -> CustomDecoderState_update(self, byte)

\* update that passes over '=' in every variant, not only in Base64.
DecoderState_update_pad_any(self, byte) ==
    IF byte = 61 THEN Ok([state |-> self, output |-> None])
    ELSE CASE self.tag = "Hex" -> HexDecoderState_update(self, byte)
           [] self.tag = "Base64" -> CustomDecoderState_update(self, byte)
           [] self.tag = "Custom" -> CustomDecoderState_update(self, byte)

\* update that passes over '=' in Custom too, as is_final groups the two.
DecoderState_update_pad_custom(self, byte) ==
    CASE self.tag = "Hex" -> HexDecoderState_update(self, byte)
      [] self.tag \in {"Base64", "Custom"} ->
            IF byte = 61 THEN Ok([state |-> self, output |-> None])
            ELSE CustomDecoderState_update(self, byte)

\* b'='
DecoderState_update(self, byte) ==
    CASE self.tag = "Hex" -> HexDecoderState_update(self, byte)
      [] self.tag = "Base64" ->
            IF byte = 61 THEN Ok([state |-> self, output |-> None])
            ELSE CustomDecoderState_update(self, byte)
      [] self.tag = "Custom" -> CustomDecoderState_update(self, byte)

DecoderState_is_final(self) ==
    CASE self.tag = "Hex" -> HexDecoderState_is_final(self)
      [] OTHER -> CustomDecoderState_is_final(self)

\* The values of `enum Decoder`.
Decoder_Hex == [kind |-> "Hex"]
Decoder_Base64 == [kind |-> "Base64"]
Decoder_Base64Url == [kind |-> "Base64Url"]
Decoder_Custom(encoding) == [kind |-> "Custom", encoding |-> encoding]

\* Decoder::custom; defined for the alphabets Encoding::new accepts.
Decoder_custom(alphabet) == Decoder_Custom(Encoding_new(alphabet).val)

\* new_state that gives Base64Url the table of Base64.
Decoder_new_state_url_as_base64(self) ==
    CASE self.kind = "Hex" -> HexDecoderState_new
      [] self.kind = "Base64" -> CustomDecoderState_new("Base64", BASE64)
      [] self.kind = "Base64Url" -> CustomDecoderState_new("Base64", BASE64)
      [] self.kind = "Custom" -> CustomDecoderState_new("Custom", self.encoding)

Decoder_new_state(self) ==
    CASE self.kind = "Hex" -> HexDecoderState_new
      [] self.kind = "Base64" -> CustomDecoderState_new("Base64", BASE64)
      [] self.kind = "Base64Url" -> CustomDecoderState_new("Base64", BASE64_URL)
      [] self.kind = "Custom" -> CustomDecoderState_new("Custom", self.encoding)

(***************************************************************************)
(* Skipper                                                                 *)
(***************************************************************************)
\* is_ascii_whitespace without the form feed.
is_ascii_whitespace_no_ff(byte) == byte \in {32, 9, 10, 13}

\* is_ascii_whitespace with the vertical tab, as isspace of C has it.
is_ascii_whitespace_with_vt(byte) == byte \in {32, 9, 10, 11, 12, 13}

\* u8::is_ascii_whitespace: space, \t, \n, form feed, \r.
is_ascii_whitespace(byte) == byte \in {32, 9, 10, 12, 13}

\* The loop that always steps once more when it stops.
RECURSIVE ScanToNewline_overshoot(_, _)
ScanToNewline_overshoot(input, i) ==
    IF i < Len(input) /\ input[i + 1] # 10
    THEN ScanToNewline_overshoot(input, i + 1)
    ELSE i + 1

\* The loop that stops after the newline it found.
RECURSIVE ScanToNewline_past(_, _)
ScanToNewline_past(input, i) ==
    IF i < Len(input)
    THEN IF input[i + 1] # 10 THEN ScanToNewline_past(input, i + 1) ELSE i + 1
    ELSE i

\* The `while i < input.len() && input[i] != b'\n'` loop.
RECURSIVE ScanToNewline(_, _)
ScanToNewline(input, i) ==
    IF i < Len(input) /\ input[i + 1] # 10 THEN ScanToNewline(input, i + 1) ELSE i

\* detect_pem_header that skips the five dashes and not the rest of the line.
Skipper_detect_pem_header_dashes_only(input, i) ==
    IF Len(input) < i + 5 THEN None
    ELSE IF /\ input[i + 1] = 45
            /\ input[i + 2] = 45
            /\ input[i + 3] = 45
            /\ input[i + 4] = 45
            /\ input[i + 5] = 45
         THEN Some(i + 5)
         ELSE None

\* detect_pem_header that takes one dash for a marker.
Skipper_detect_pem_header_one_dash(input, i) ==
    IF input[i + 1] = 45 THEN Some(ScanToNewline(input, i + 1)) ELSE None

\* b'-' five times, then the rest of the line.
Skipper_detect_pem_header(input, i) ==
    IF Len(input) < i + 5 THEN None
    ELSE IF /\ input[i + 1] = 45
            /\ input[i + 2] = 45
            /\ input[i + 3] = 45
            /\ input[i + 4] = 45
            /\ input[i + 5] = 45
         THEN Some(ScanToNewline(input, i + 5))
         ELSE None

\* skip without the Pem arm.
Skipper_skip_whitespace_only(self, input, in_index) ==
    IF is_ascii_whitespace(input[in_index + 1]) THEN in_index + 1 ELSE in_index

\* Skipper::skip; self is "Whitespace" or "Pem", in_index < input.len().
Skipper_skip(self, input, in_index) ==
    IF is_ascii_whitespace(input[in_index + 1]) THEN in_index + 1
    ELSE IF self = "Pem"
         THEN LET new_in_index == Skipper_detect_pem_header(input, in_index) IN
              IF new_in_index # None THEN new_in_index[1] ELSE in_index
         ELSE in_index

\* The loop asking Skipper::Whitespace when it was given no skipper.
SkipTo_always(skipper, input, in_index) ==
    Skipper_skip(IF skipper = None THEN "Whitespace" ELSE skipper[1], input, in_index)

\* The `if let Some(skipper) = skipper` of the driver loop: where the loop
\* continues from, in_index itself when nothing is skipped.
SkipTo(skipper, input, in_index) ==
    IF skipper = None THEN in_index ELSE Skipper_skip(skipper[1], input, in_index)

(***************************************************************************)
(* Decoder::do_decode (decoder.rs)                                         *)
(***************************************************************************)
\* The store without the test: past the end the last element is written.
StoreByte_clamp(bytes, out_index, N, byte) ==
    IF N = 0 THEN bytes
    ELSE [bytes EXCEPT ![IF out_index < N THEN out_index + 1 ELSE N] = byte]

\* `if out_index < N { bytes[out_index] = byte; }`
StoreByte(bytes, out_index, N, byte) ==
    IF out_index < N THEN [bytes EXCEPT ![out_index + 1] = byte] ELSE bytes

\* Post-conditions with the single assertion `out_index == N`.
PostConditions_one_assert(bytes, out_index, N, state) ==
    IF ~(out_index = N)
    THEN Panic([kind |-> "underflow", emitted |-> out_index, expected |-> N])
    ELSE IF ~DecoderState_is_final(state)
    THEN Panic([kind |-> "leftover_state"])
    ELSE Ok(bytes)

\* Post-conditions without the assertion on the final state.
PostConditions_no_final(bytes, out_index, N, state) ==
    IF ~(out_index <= N)
    THEN Panic([kind |-> "overflow", emitted |-> out_index, expected |-> N])
    ELSE IF ~(out_index = N)
    THEN Panic([kind |-> "underflow", emitted |-> out_index, expected |-> N])
    ELSE Ok(bytes)

\* Post-conditions that return the array filled so far on an underflow.
PostConditions_partial(bytes, out_index, N, state) ==
    IF ~(out_index <= N)
    THEN Panic([kind |-> "overflow", emitted |-> out_index, expected |-> N])
    ELSE IF ~DecoderState_is_final(state)
    THEN Panic([kind |-> "leftover_state"])
    ELSE Ok(bytes)

\* Post-conditions that look at the final state before the lengths.
PostConditions_final_first(bytes, out_index, N, state) ==
    IF ~DecoderState_is_final(state)
    THEN Panic([kind |-> "leftover_state"])
    ELSE IF ~(out_index <= N)
    THEN Panic([kind |-> "overflow", emitted |-> out_index, expected |-> N])
    ELSE IF ~(out_index = N)
    THEN Panic([kind |-> "underflow", emitted |-> out_index, expected |-> N])
    ELSE Ok(bytes)

\* The assertions after the loop, in their order, and the returned array.
PostConditions(bytes, out_index, N, state) ==
    IF ~(out_index <= N)
    THEN Panic([kind |-> "overflow", emitted |-> out_index, expected |-> N])
    ELSE IF ~(out_index = N)
    THEN Panic([kind |-> "underflow", emitted |-> out_index, expected |-> N])
    ELSE IF ~DecoderState_is_final(state)
    THEN Panic([kind |-> "leftover_state"])
    ELSE Ok(bytes)

\* The loop and the post-conditions as one function of the call's arguments.
RECURSIVE do_decode_from(_, _, _, _, _, _, _)
do_decode_from(input, skipper, N, bytes, in_index, out_index, state) ==
    IF ~(in_index < Len(input)) THEN PostConditions(bytes, out_index, N, state)
    ELSE LET new_in_index == SkipTo(skipper, input, in_index) IN
         IF new_in_index # in_index
         THEN do_decode_from(input, skipper, N, bytes, new_in_index, out_index, state)
         ELSE LET update == DecoderState_update(state, input[in_index + 1]) IN
              IF ~update.ok THEN update
              ELSE IF update.val.output # None
              THEN do_decode_from(input, skipper, N,
                       StoreByte(bytes, out_index, N, update.val.output[1]),
                       in_index + 1, out_index + 1, update.val.state)
              ELSE do_decode_from(input, skipper, N, bytes,
                       in_index + 1, out_index, update.val.state)

do_decode(self, input, skipper, N) ==
    do_decode_from(input, skipper, N, [i \in 1 .. N |-> 0], 0, 0,
                   Decoder_new_state(self))

\* Decoder::decode, SkipWhitespace::decode, Pem::decode.
Decoder_decode(self, input, N) == do_decode(self, input, None, N)
SkipWhitespace_decode(self, input, N) == do_decode(self, input, Some("Whitespace"), N)
Pem_decode(input, N) == do_decode(Decoder_Base64, input, Some("Pem"), N)

(***************************************************************************)
(* decode! (macros.rs)                                                     *)
(***************************************************************************)
\* Decoder::do_decode_len: the driver loop run to count the bytes put out,
\* with every check of do_decode but the two on the output length.
RECURSIVE do_decode_len_from(_, _, _, _, _)
do_decode_len_from(input, skipper, in_index, out_index, state) ==
    IF ~(in_index < Len(input))
    THEN IF ~DecoderState_is_final(state) THEN Panic([kind |-> "leftover_state"])
         ELSE Ok(out_index)
    ELSE LET new_in_index == SkipTo(skipper, input, in_index) IN
         IF new_in_index # in_index
         THEN do_decode_len_from(input, skipper, new_in_index, out_index, state)
         ELSE LET update == DecoderState_update(state, input[in_index + 1]) IN
              IF ~update.ok THEN update
              ELSE do_decode_len_from(input, skipper, in_index + 1,
                       IF update.val.output # None THEN out_index + 1 ELSE out_index,
                       update.val.state)

do_decode_len(self, input, skipper) ==
    do_decode_len_from(input, skipper, 0, 0, Decoder_new_state(self))

\* DecoderWrapper(..).decode_len for Decoder, SkipWhitespace and Pem; the
\* wrapped value is the decoder and the skipper it decodes with.
DecoderWrapper_decode_len(self, skipper, input) == do_decode_len(self, input, skipper)

(***************************************************************************)
(* The encoders of the tests (hex::encode, base64::encode_config,          *)
(* bech32's to_base32): the bits of the bytes, most significant first,     *)
(* cut into groups of k bits, the last group filled with zero bits.        *)
(***************************************************************************)
RECURSIVE Flatten(_)
Flatten(seqs) == IF seqs = << >> THEN << >> ELSE Head(seqs) \o Flatten(Tail(seqs))

SeqsUpTo(S, n) == UNION {[1 .. m -> S] : m \in 0 .. n}

ByteBits(byte) == [i \in 1 .. 8 |-> (byte \div Pow2(8 - i)) % 2]

BitsOf(plain) == Flatten([i \in 1 .. Len(plain) |-> ByteBits(plain[i])])

RECURSIVE BitsValue(_)
BitsValue(bits) ==
    IF bits = << >> THEN 0
    ELSE 2 * BitsValue(SubSeq(bits, 1, Len(bits) - 1)) + bits[Len(bits)]

\* The k-bit digits of `plain`.
ToDigits(plain, k) ==
    LET bits == BitsOf(plain)
        n == (Len(bits) + k - 1) \div k
        padded == bits \o [i \in 1 .. n * k - Len(bits) |-> 0]
    IN [g \in 1 .. n |-> BitsValue(SubSeq(padded, (g - 1) * k + 1, g * k))]

\* The digits written in `alphabet`, whose length is 2^k.
EncodeWith(alphabet, k, plain) ==
    LET digits == ToDigits(plain, k) IN [g \in 1 .. Len(digits) |-> alphabet[digits[g] + 1]]

\* RFC 4648 padding: '=' up to a multiple of four characters.
PadBase64(text) == text \o [i \in 1 .. (4 - (Len(text) % 4)) % 4 |-> 61]

\* "0123456789abcdef" and "0123456789ABCDEF"
HEX_LOWER == << 48, 49, 50, 51, 52, 53, 54, 55, 56, 57, 97, 98, 99, 100, 101, 102 >>
HEX_UPPER == << 48, 49, 50, 51, 52, 53, 54, 55, 56, 57, 65, 66, 67, 68, 69, 70 >>

\* "qpzry9x8gf2tvdw0s3jn54khce6mua7l"
BECH32_ALPHABET ==
    << 113, 112, 122, 114, 121, 57, 120, 56, 103, 102, 50, 116, 118, 100, 119, 48,
       115, 51, 106, 110, 53, 52, 107, 104, 99, 101, 54, 109, 117, 97, 55, 108 >>

\* "01", "0123", "01234567"
BIN_ALPHABET == << 48, 49 >>
QUAD_ALPHABET == << 48, 49, 50, 51 >>
OCT_ALPHABET == << 48, 49, 50, 51, 52, 53, 54, 55 >>

RECURSIVE Log2(_)
Log2(n) == IF n <= 1 THEN 0 ELSE 1 + Log2(n \div 2)

(***************************************************************************)
(* Decoder::do_decode of lib.rs: the driver that asserts at every byte     *)
(***************************************************************************)
\* state.update of lib.rs: the state machines of decoder.rs with messages
\* that do not name the character.
lib_DecoderState_update(self, byte) ==
    LET update == DecoderState_update(self, byte) IN
    IF update.ok THEN update ELSE Panic([kind |-> update.err.kind])

\* `assert!(out_index < N, ..); bytes[out_index] = byte;`
lib_StoreByte(bytes, out_index, N, byte) ==
    IF ~(out_index < N) THEN Panic([kind |-> "overflow"])
    ELSE Ok([bytes EXCEPT ![out_index + 1] = byte])

\* The assertions after the loop of lib.rs with `out_index <= N` for the
\* first of them.
lib_PostConditions_at_most(bytes, out_index, N, state) ==
    IF ~(out_index <= N) THEN Panic([kind |-> "underflow"])
    ELSE IF ~DecoderState_is_final(state) THEN Panic([kind |-> "leftover_state"])
    ELSE Ok(bytes)

\* The assertions after the loop of lib.rs.
lib_PostConditions(bytes, out_index, N, state) ==
    IF ~(out_index = N) THEN Panic([kind |-> "underflow"])
    ELSE IF ~DecoderState_is_final(state) THEN Panic([kind |-> "leftover_state"])
    ELSE Ok(bytes)

\* The loop and the assertions of lib.rs as one function.
RECURSIVE lib_do_decode_from(_, _, _, _, _, _, _)
lib_do_decode_from(input, skipper, N, bytes, in_index, out_index, state) ==
    IF ~(in_index < Len(input)) THEN lib_PostConditions(bytes, out_index, N, state)
    ELSE LET new_in_index == SkipTo(skipper, input, in_index) IN
         IF new_in_index # in_index
         THEN lib_do_decode_from(input, skipper, N, bytes, new_in_index, out_index, state)
         ELSE LET update == lib_DecoderState_update(state, input[in_index + 1]) IN
              IF ~update.ok THEN update
              ELSE IF update.val.output # None
              THEN LET stored == lib_StoreByte(bytes, out_index, N,
                                               update.val.output[1]) IN
                   IF ~stored.ok THEN stored
                   ELSE lib_do_decode_from(input, skipper, N, stored.val,
                            in_index + 1, out_index + 1, update.val.state)
              ELSE lib_do_decode_from(input, skipper, N, bytes,
                       in_index + 1, out_index, update.val.state)

lib_do_decode(self, input, skipper, N) ==
    lib_do_decode_from(input, skipper, N, [i \in 1 .. N |-> 0], 0, 0,
                       Decoder_new_state(self))

(***************************************************************************)
(* Bounds of the model                                                     *)
(***************************************************************************)
\* Longest byte sequence that is encoded and decoded back.
MaxBytes == 3

\* Most pieces an input is put together from.
MaxLen == 4

\* Largest output length N a raw input is decoded into.
MaxN == 3

\* Most '=' characters put after a body.
MaxPad == 3

\* Longest run of whitespace put into an input.
MaxRun == 2

\* Most digits put before the character under test.
MaxAround == 2

\* Longest alphabet handed to Encoding::new.
MaxAlphabet == 65

\* Most digits in the input of a call that other calls follow.
MaxCallLen == 2

\* Longest sequence of byte values whose digits step the state machines.
MaxPlain == 2

\* Most pieces of an input whose call is followed to its end under fairness.
MaxFairLen == 3

\* Most characters of an alphabet given as a string of characters.
MaxChars == 8

\* Byte values of the encoded sequences; every single byte is encoded too.
ByteVals == {0, 1, 90, 127, 128, 165, 251, 255}

PlainSeqs == SeqsUpTo(ByteVals, MaxBytes) \cup {<< v >> : v \in 0 .. U8 - 1}

(***************************************************************************)
(* The calls the model makes                                               *)
(***************************************************************************)
\* A call: the decoder, the skip policy, the input and N; `sample` records
\* how the input was made (the bytes it encodes, the alphabet in use).
Call(decoder, skipper, input, n, how, plain, alphabet) ==
    [decoder |-> decoder, skipper |-> skipper, input |-> input, N |-> n,
     sample |-> [how |-> how, plain |-> plain, alphabet |-> alphabet]]

\* The encodings the fuzz tests decode, and one alphabet for each width.
RoundTripCalls(b) ==
      { Call(Decoder_Base64, None, PadBase64(EncodeWith(BASE64_ALPHABET, 6, b)),
             Len(b), "base64", b, BASE64_ALPHABET),
        Call(Decoder_Base64, None, EncodeWith(BASE64_ALPHABET, 6, b),
             Len(b), "base64_no_pad", b, BASE64_ALPHABET),
        Call(Decoder_Base64Url, None, PadBase64(EncodeWith(BASE64_URL_ALPHABET, 6, b)),
             Len(b), "base64url", b, BASE64_URL_ALPHABET),
        Call(Decoder_Base64Url, None, EncodeWith(BASE64_URL_ALPHABET, 6, b),
             Len(b), "base64url_no_pad", b, BASE64_URL_ALPHABET),
        Call(Decoder_Hex, None, EncodeWith(HEX_LOWER, 4, b),
             Len(b), "hex", b, << >>),
        Call(Decoder_Hex, None, EncodeWith(HEX_UPPER, 4, b),
             Len(b), "hex_upper", b, << >>),
        Call(Decoder_custom(HEX_LOWER), None, EncodeWith(HEX_LOWER, 4, b),
             Len(b), "custom", b, HEX_LOWER),
        Call(Decoder_custom(BIN_ALPHABET), None, EncodeWith(BIN_ALPHABET, 1, b),
             Len(b), "custom", b, BIN_ALPHABET),
        Call(Decoder_custom(QUAD_ALPHABET), None, EncodeWith(QUAD_ALPHABET, 2, b),
             Len(b), "custom", b, QUAD_ALPHABET),
        Call(Decoder_custom(OCT_ALPHABET), None, EncodeWith(OCT_ALPHABET, 3, b),
             Len(b), "custom", b, OCT_ALPHABET),
        Call(Decoder_custom(BECH32_ALPHABET), None, EncodeWith(BECH32_ALPHABET, 5, b),
             Len(b), "custom", b, BECH32_ALPHABET),
        Call(Decoder_custom(BASE64_URL_ALPHABET), None,
             EncodeWith(BASE64_URL_ALPHABET, 6, b),
             Len(b), "custom", b, BASE64_URL_ALPHABET) }

\* A decoder and a skip policy as the public API pairs them (Decoder::decode,
\* SkipWhitespace::decode, Pem::decode), with the pieces raw inputs are put
\* together from: digits, padding, whitespace, dashes, characters outside
\* the alphabet.
Config(decoder, skipper, alphabet, pieces) ==
    [decoder |-> decoder, skipper |-> skipper, alphabet |-> alphabet, pieces |-> pieces]

Configs ==
    { \* "0" "1" "2" "a" "F" "g" " "
      Config(Decoder_Hex, None, << >>,
             {<< 48 >>, << 49 >>, << 50 >>, << 97 >>, << 70 >>, << 103 >>, << 32 >>}),
      \* "0" "1" "a" "F" " " "\n"
      Config(Decoder_Hex, Some("Whitespace"), << >>,
             {<< 48 >>, << 49 >>, << 97 >>, << 70 >>, << 32 >>, << 10 >>}),
      \* "A" "Q" "/" "=" "-" " "
      Config(Decoder_Base64, None, BASE64_ALPHABET,
             {<< 65 >>, << 81 >>, << 47 >>, << 61 >>, << 45 >>, << 32 >>}),
      \* "A" "Q" "/" "=" " " "\n"
      Config(Decoder_Base64, Some("Whitespace"), BASE64_ALPHABET,
             {<< 65 >>, << 81 >>, << 47 >>, << 61 >>, << 32 >>, << 10 >>}),
      \* "A" "Q" "=" "\n" " " "-" "-----"
      Config(Decoder_Base64, Some("Pem"), BASE64_ALPHABET,
             {<< 65 >>, << 81 >>, << 61 >>, << 10 >>, << 32 >>, << 45 >>,
              << 45, 45, 45, 45, 45 >>}),
      \* "A" "Q" "-" "_" "=" "+"
      Config(Decoder_Base64Url, None, BASE64_URL_ALPHABET,
             {<< 65 >>, << 81 >>, << 45 >>, << 95 >>, << 61 >>, << 43 >>}),
      \* "0" "1" "0110" "1110" "2"
      Config(Decoder_custom(BIN_ALPHABET), None, BIN_ALPHABET,
             {<< 48 >>, << 49 >>, << 48, 49, 49, 48 >>, << 49, 49, 49, 48 >>, << 50 >>}),
      \* "0" "1" "0110" "1110" " "
      Config(Decoder_custom(BIN_ALPHABET), Some("Whitespace"), BIN_ALPHABET,
             {<< 48 >>, << 49 >>, << 48, 49, 49, 48 >>, << 49, 49, 49, 48 >>, << 32 >>}),
      \* "0" "1" "2" "3" "4"
      Config(Decoder_custom(QUAD_ALPHABET), None, QUAD_ALPHABET,
             {<< 48 >>, << 49 >>, << 50 >>, << 51 >>, << 52 >>}),
      \* "0" "3" "6" "7" "8"
      Config(Decoder_custom(OCT_ALPHABET), None, OCT_ALPHABET,
             {<< 48 >>, << 51 >>, << 54 >>, << 55 >>, << 56 >>}),
      \* "0" "7" "a" "f" "A"
      Config(Decoder_custom(HEX_LOWER), None, HEX_LOWER,
             {<< 48 >>, << 55 >>, << 97 >>, << 102 >>, << 65 >>}),
      \* "q" "p" "s" "l" "b"
      Config(Decoder_custom(BECH32_ALPHABET), None, BECH32_ALPHABET,
             {<< 113 >>, << 112 >>, << 115 >>, << 108 >>, << 98 >>}),
      \* "A" "Q" "_" "-" "="
      Config(Decoder_custom(BASE64_URL_ALPHABET), None, BASE64_URL_ALPHABET,
             {<< 65 >>, << 81 >>, << 95 >>, << 45 >>, << 61 >>}) }

\* The call that decodes the pieces `ps` of configuration `c` into n bytes.
RawCall(c, ps, n) == Call(c.decoder, c.skipper, Flatten(ps), n, "raw", << >>, c.alphabet)

\* " -": an alphabet whose digits are a whitespace byte and the dash.
SPACE_DASH_ALPHABET == << 32, 45 >>

\* "-----"
DASHES == << 45, 45, 45, 45, 45 >>

\* Decoders and skip policies with two characters they take as digits (for
\* Base64 under Pem: a digit and the padding).
CharConfigs ==
    { \* "0" "F"
      Config(Decoder_Hex, None, << >>, {<< 48 >>, << 70 >>}),
      \* "1" "a"
      Config(Decoder_Hex, Some("Whitespace"), << >>, {<< 49 >>, << 97 >>}),
      \* "A" "/"
      Config(Decoder_Base64, None, BASE64_ALPHABET, {<< 65 >>, << 47 >>}),
      \* "Q" "="
      Config(Decoder_Base64, Some("Pem"), BASE64_ALPHABET, {<< 81 >>, << 61 >>}),
      \* "-" "_"
      Config(Decoder_Base64Url, None, BASE64_URL_ALPHABET, {<< 45 >>, << 95 >>}),
      \* "0" "1"
      Config(Decoder_custom(BIN_ALPHABET), None, BIN_ALPHABET, {<< 48 >>, << 49 >>}),
      \* "0" "7"
      Config(Decoder_custom(OCT_ALPHABET), None, OCT_ALPHABET, {<< 48 >>, << 55 >>}),
      \* "q" "l"
      Config(Decoder_custom(BECH32_ALPHABET), Some("Whitespace"), BECH32_ALPHABET,
             {<< 113 >>, << 108 >>}),
      \* " " "-"
      Config(Decoder_custom(SPACE_DASH_ALPHABET), None, SPACE_DASH_ALPHABET,
             {<< 32 >>, << 45 >>}),
      Config(Decoder_custom(SPACE_DASH_ALPHABET), Some("Whitespace"), SPACE_DASH_ALPHABET,
             {<< 32 >>, << 45 >>}) }

\* What is put between the digits: every byte value, and the PEM marker.
TestedPieces == {<< b >> : b \in 0 .. U8 - 1} \cup {DASHES}

\* The call that decodes `mid` between the digits `pre` and `post`.
CharCall(c, pre, mid, post, n) ==
    Call(c.decoder, c.skipper, pre \o mid \o post, n, "char", mid, c.alphabet)

\* "what?", "te\xc3\x9f" (the bytes of "te" and a sharp s) and "alphabet"
WHAT_ALPHABET == << 119, 104, 97, 116, 63 >>
TESS_ALPHABET == << 116, 101, 195, 159 >>
ALPHABET_ALPHABET == << 97, 108, 112, 104, 97, 98, 101, 116 >>

\* Strings of `len` bytes: `len` distinct ASCII characters in a row from
\* NUL, from '!' and from '<' on, the first `len` of the Base64 alphabet,
\* and the alphabets of the tests.
BaseAlphabets(len) ==
    {[i \in 1 .. len |-> first + i - 1] : first \in {0, 33, 60}}
        \cup (IF len <= Len(BASE64_ALPHABET) THEN {SubSeq(BASE64_ALPHABET, 1, len)} ELSE {})
        \cup {a \in {WHAT_ALPHABET, TESS_ALPHABET, ALPHABET_ALPHABET} : Len(a) = len}

\* The places where a character of an alphabet is replaced, and what by: a
\* character the alphabet has already, a byte that is not ASCII, DEL.
Places(len) == {p \in {1, 2, (len + 1) \div 2, len} : 1 <= p /\ p <= len}
Replacements(alphabet) ==
    {127, 128, 255} \cup {alphabet[i] : i \in {1, Len(alphabet)} \cap DOMAIN alphabet}

\* An alphabet as it is and with one or two characters replaced.
Variants(alphabet) ==
    {alphabet} \cup
    { [alphabet EXCEPT ![p] = b, ![q] = c] :
      p \in Places(Len(alphabet)), q \in Places(Len(alphabet)),
      b \in Replacements(alphabet), c \in Replacements(alphabet) }

\* The ends of the inputs of calls made one after the other: nothing, " ",
\* "=" and "g".
CallEnds == {<< >>, << 32 >>, << 61 >>, << 103 >>}

\* A call on the decoder of `c`; `how` tells how the call before it ended.
SeqCall(c, pre, end, n, how) ==
    Call(c.decoder, c.skipper, pre \o end, n, how, << >>, c.alphabet)

(***************************************************************************)
(* State                                                                   *)
(***************************************************************************)
VARIABLES
    decoder,    \* self of do_decode
    skipper,    \* Option<Skipper>
    input,      \* &[u8]
    N,          \* the const generic N
    sample,     \* how the input was made
    bytes,      \* [u8; N]
    in_index,
    out_index,
    state,      \* DecoderState
    pc,         \* "loop" inside the while loop, "done" after the call
    result,     \* None while the call runs, then Some(Ok(bytes)) or Some(Panic(..))
    fed,        \* history: the input bytes handed to state.update
    emitted,    \* history: the bytes state.update has put out
    markers     \* history: <<from, to>> of every PEM marker skipped

vars == << decoder, skipper, input, N, sample, bytes, in_index, out_index,
           state, pc, result, fed, emitted, markers >>

args == << decoder, skipper, input, N, sample >>

\* The first lines of do_decode, for one call.
Start(call) ==
    /\ decoder = call.decoder
    /\ skipper = call.skipper
    /\ input = call.input
    /\ N = call.N
    /\ sample = call.sample
    /\ bytes = [i \in 1 .. call.N |-> 0]
    /\ in_index = 0
    /\ out_index = 0
    /\ state = Decoder_new_state(call.decoder)
    /\ pc = "loop"
    /\ result = None
    /\ fed = << >>
    /\ emitted = << >>
    /\ markers = {}

\* One pass of the loop that ends in `continue`: the skipper moved in_index.
SkipStep ==
    /\ pc = "loop"
    /\ in_index < Len(input)
    /\ SkipTo(skipper, input, in_index) # in_index
    /\ in_index' = SkipTo(skipper, input, in_index)
    /\ markers' = IF is_ascii_whitespace(input[in_index + 1]) THEN markers
                  ELSE markers \cup {<< in_index, in_index' >>}
    /\ UNCHANGED << args, bytes, out_index, state, pc, result, fed, emitted >>

\* One pass of the loop that feeds input[in_index] to the state machine.
UpdateStep ==
    /\ pc = "loop"
    /\ in_index < Len(input)
    /\ SkipTo(skipper, input, in_index) = in_index
    /\ LET update == DecoderState_update(state, input[in_index + 1]) IN
       IF ~update.ok
       THEN /\ pc' = "done"
            /\ result' = Some(update)
            /\ UNCHANGED << bytes, in_index, out_index, state, fed, emitted >>
       ELSE /\ state' = update.val.state
            /\ fed' = Append(fed, input[in_index + 1])
            /\ IF update.val.output # None
               THEN /\ bytes' = StoreByte(bytes, out_index, N, update.val.output[1])
                    /\ out_index' = out_index + 1
                    /\ emitted' = Append(emitted, update.val.output[1])
               ELSE UNCHANGED << bytes, out_index, emitted >>
            /\ in_index' = in_index + 1
            /\ UNCHANGED << pc, result >>
    /\ UNCHANGED << args, markers >>

\* The end of the loop: the assertions, and the return.
Finish ==
    /\ pc = "loop"
    /\ ~(in_index < Len(input))
    /\ pc' = "done"
    /\ result' = Some(PostConditions(bytes, out_index, N, state))
    /\ UNCHANGED << args, bytes, in_index, out_index, state, fed, emitted, markers >>

\* Decoder::custom(alphabet), and the first lines of the decode call made
\* on the decoder when there is one.
CustomStep ==
    /\ pc = "new"
    /\ LET encoding == Encoding_new(sample.alphabet) IN
       IF ~encoding.ok
       THEN /\ pc' = "done"
            /\ result' = Some(encoding)
            /\ UNCHANGED << decoder, state >>
       ELSE /\ decoder' = Decoder_Custom(encoding.val)
            /\ state' = Decoder_new_state(decoder')
            /\ pc' = "loop"
            /\ UNCHANGED result
    /\ UNCHANGED << skipper, input, N, sample, bytes, in_index, out_index,
                    fed, emitted, markers >>

\* `const __OUTPUT_LEN: usize = DecoderWrapper($decoder).decode_len($bytes)`
\* of decode!, and the first lines of the decode::<__OUTPUT_LEN> that follows.
DecodeLenStep ==
    /\ pc = "len"
    /\ LET output_len == DecoderWrapper_decode_len(decoder, skipper, input) IN
       IF ~output_len.ok
       THEN /\ pc' = "done"
            /\ result' = Some(output_len)
            /\ UNCHANGED << N, bytes >>
       ELSE /\ N' = output_len.val
            /\ bytes' = [i \in 1 .. output_len.val |-> 0]
            /\ pc' = "loop"
            /\ UNCHANGED result
    /\ UNCHANGED << decoder, skipper, input, sample, in_index, out_index, state,
                    fed, emitted, markers >>

\* The call has ended and the same decoder, `self` being Copy, is used for
\* another call: the first lines of do_decode again.
NextCall ==
    /\ pc = "done"
    /\ \E c \in CharConfigs : \E pre \in SeqsUpTo(c.pieces, MaxCallLen) :
         \E end \in CallEnds : \E n \in {0, 1} :
           LET how == IF result[1].ok THEN "after_return"
                      ELSE IF result[1].err.kind = "leftover_state"
                      THEN "after_leftover_state" ELSE "after_panic"
               call == SeqCall(c, Flatten(pre), end, n, how)
           IN
           /\ c.decoder = decoder
           /\ decoder' = decoder
           /\ skipper' = call.skipper
           /\ input' = call.input
           /\ N' = call.N
           /\ sample' = call.sample
           /\ bytes' = [i \in 1 .. call.N |-> 0]
           /\ in_index' = 0
           /\ out_index' = 0
           /\ state' = Decoder_new_state(decoder)
           /\ pc' = "loop"
           /\ result' = None
           /\ fed' = << >>
           /\ emitted' = << >>
           /\ markers' = {}

Next == SkipStep \/ UpdateStep \/ Finish

\* Every input of at most MaxLen pieces of a configuration among `configs`,
\* decoded into every N up to MaxN.
InitWith(configs) ==
    \E c \in configs : \E ps \in SeqsUpTo(c.pieces, MaxLen) : \E n \in 0 .. MaxN :
        Start(RawCall(c, ps, n))

Init == InitWith(Configs)

\* Decoding raw inputs, valid or not, under every skip policy.
Spec == Init /\ [][Next]_vars

InitSkip == InitWith({c \in Configs : c.skipper # None})

\* SkipWhitespace::decode and Pem::decode on raw inputs.
SpecSkip == InitSkip /\ [][Next]_vars

InitBase64 ==
    InitWith({c \in Configs : c.skipper = None /\ c.decoder.kind \in {"Base64", "Base64Url"}})

\* Decoder::Base64.decode and Decoder::Base64Url.decode on raw inputs.
SpecBase64 == InitBase64 /\ [][UpdateStep \/ Finish]_vars

InitRoundTrip == \E b \in PlainSeqs : \E call \in RoundTripCalls(b) : Start(call)

\* Decoding what the encoders wrote.
SpecRoundTrip == InitRoundTrip /\ [][UpdateStep \/ Finish]_vars

InitChars ==
    \E c \in CharConfigs : \E pre \in SeqsUpTo(c.pieces, MaxAround) :
        \E mid \in TestedPieces : \E post \in SeqsUpTo(c.pieces, 1) :
            \E n \in 0 .. MaxAround \div 2 :
                Start(CharCall(c, Flatten(pre), mid, Flatten(post), n))

\* Every byte value, and the marker, at every place among a few digits.
SpecChars == InitChars /\ [][Next]_vars

\* The output length the digits 0, 1, .. of an alphabet decode to.
AlphabetBytes(alphabet) == (Len(alphabet) * Log2(Len(alphabet))) \div 8

\* Decoder::custom(alphabet) has not been called yet; the decoder is then
\* given the alphabet itself as the input.
InitAlphabet ==
    \E len \in 0 .. MaxAlphabet : \E base \in BaseAlphabets(len) :
      \E alphabet \in Variants(base) :
        /\ decoder = None
        /\ skipper = None
        /\ input = alphabet
        /\ N = AlphabetBytes(alphabet)
        /\ sample = [how |-> "alphabet", plain |-> << >>, alphabet |-> alphabet]
        /\ bytes = [i \in 1 .. AlphabetBytes(alphabet) |-> 0]
        /\ in_index = 0
        /\ out_index = 0
        /\ state = None
        /\ pc = "new"
        /\ result = None
        /\ fed = << >>
        /\ emitted = << >>
        /\ markers = {}

\* Decoder::custom on alphabets good and bad, then a decode.
SpecAlphabet == InitAlphabet /\ [][CustomStep \/ UpdateStep \/ Finish]_vars

\* decode!(decoder, input) before its output length is known.
InitMacro ==
    \E c \in Configs : \E ps \in SeqsUpTo(c.pieces, MaxLen) :
        /\ decoder = c.decoder
        /\ skipper = c.skipper
        /\ input = Flatten(ps)
        /\ N = 0
        /\ sample = [how |-> "macro", plain |-> << >>, alphabet |-> c.alphabet]
        /\ bytes = << >>
        /\ in_index = 0
        /\ out_index = 0
        /\ state = Decoder_new_state(c.decoder)
        /\ pc = "len"
        /\ result = None
        /\ fed = << >>
        /\ emitted = << >>
        /\ markers = {}

\* decode! on raw inputs under every skip policy.
SpecMacro == InitMacro /\ [][DecodeLenStep \/ Next]_vars

InitCalls ==
    \E c \in CharConfigs : \E pre \in SeqsUpTo(c.pieces, MaxCallLen) :
        \E end \in CallEnds : \E n \in {0, 1} :
            Start(SeqCall(c, Flatten(pre), end, n, "first"))

\* Calls made one after the other on one decoder.
SpecCalls == InitCalls /\ [][Next \/ NextCall]_vars

\* Five bytes: enough digits for every alphabet to come back to an empty
\* partial byte (eight digits of five bits).
LONG_PLAIN ==
    { << 255, 255, 255, 255, 255 >>, << 165, 90, 165, 90, 165 >>,
      << 0, 1, 90, 127, 128 >>, << 251, 128, 1, 127, 90 >> }

InitMachine ==
    \E b \in SeqsUpTo(ByteVals, MaxPlain) \cup {<< v >> : v \in 0 .. U8 - 1} \cup LONG_PLAIN :
        \E call \in RoundTripCalls(b) : Start(call)

\* The state machines stepped through runs of valid digits.
SpecMachine == InitMachine /\ [][UpdateStep \/ Finish]_vars

\* "=A": an alphabet whose first digit is the '=' sign.
EQ_ALPHABET == << 61, 65 >>

\* Every kind of decoder, with two digits and '=' as pieces.
PadConfigs ==
    { \* "A" "/" "="
      Config(Decoder_Base64, None, BASE64_ALPHABET, {<< 65 >>, << 47 >>, << 61 >>}),
      \* "-" "_" "="
      Config(Decoder_Base64Url, None, BASE64_URL_ALPHABET, {<< 45 >>, << 95 >>, << 61 >>}),
      \* "0" "F" "="
      Config(Decoder_Hex, None, << >>, {<< 48 >>, << 70 >>, << 61 >>}),
      \* "A" "Q" "="
      Config(Decoder_custom(BASE64_URL_ALPHABET), None, BASE64_URL_ALPHABET,
             {<< 65 >>, << 81 >>, << 61 >>}),
      \* "=" "A"
      Config(Decoder_custom(EQ_ALPHABET), None, EQ_ALPHABET, {<< 61 >>, << 65 >>}) }

\* '=' at every place among the digits of every kind of decoder.
SpecPad == InitWith(PadConfigs) /\ [][UpdateStep \/ Finish]_vars

InitFair ==
    \E c \in Configs : \E ps \in SeqsUpTo(c.pieces, MaxFairLen) : \E n \in {0, 1} :
        Start(RawCall(c, ps, n))

\* A call that is run: a pass of the loop that can be made is made.
SpecFair == InitFair /\ [][Next]_vars /\ WF_vars(Next)

\* The bytes of one character of a &str: its UTF-8 encoding.
Utf8(ch) ==
    IF ch < 128 THEN << ch >>
    ELSE IF ch < 2048 THEN << 192 + (ch \div 64), 128 + (ch % 64) >>
    ELSE IF ch < 65536
    THEN << 224 + (ch \div 4096), 128 + ((ch \div 64) % 64), 128 + (ch % 64) >>
    ELSE << 240 + (ch \div 262144), 128 + ((ch \div 4096) % 64),
            128 + ((ch \div 64) % 64), 128 + (ch % 64) >>

\* str::as_bytes: the bytes of a string given by its characters.
str_as_bytes(chars) == Flatten([i \in 1 .. Len(chars) |-> Utf8(chars[i])])

\* "te" and a sharp s, as characters.
TESS_CHARS == << 116, 101, 223 >>

\* Strings of `len` characters: from 'a' on and from '!' on, and "te" with
\* the sharp s.
BaseStrings(len) ==
    {[i \in 1 .. len |-> first + i - 1] : first \in {97, 33}}
        \cup {s \in {TESS_CHARS} : Len(s) = len}

\* What a character of a string is replaced by: a character the string has
\* already, and characters of two, three and four bytes (sharp s, the euro
\* sign, U+1F600).
StrReplacements(chars) ==
    {223, 8364, 128512} \cup {chars[i] : i \in {1, Len(chars)} \cap DOMAIN chars}

\* A string as it is and with one or two characters replaced.
StrVariants(chars) ==
    {chars} \cup
    { [chars EXCEPT ![p] = b, ![q] = c] :
      p \in Places(Len(chars)), q \in Places(Len(chars)),
      b \in StrReplacements(chars), c \in StrReplacements(chars) }

\* Decoder::custom(alphabet) has not been called yet; the alphabet is a
\* string of characters, `sample.alphabet` its bytes.
InitStr ==
    \E len \in 0 .. MaxChars : \E base \in BaseStrings(len) :
      \E chars \in StrVariants(base) :
        LET alphabet == str_as_bytes(chars) IN
        /\ decoder = None
        /\ skipper = None
        /\ input = alphabet
        /\ N = AlphabetBytes(alphabet)
        /\ sample = [how |-> "str", plain |-> chars, alphabet |-> alphabet]
        /\ bytes = [i \in 1 .. AlphabetBytes(alphabet) |-> 0]
        /\ in_index = 0
        /\ out_index = 0
        /\ state = None
        /\ pc = "new"
        /\ result = None
        /\ fed = << >>
        /\ emitted = << >>
        /\ markers = {}

\* Decoder::custom on strings with characters of several bytes.
SpecStr == InitStr /\ [][CustomStep \/ UpdateStep \/ Finish]_vars

Done == pc = "done"
Returned == Done /\ result[1].ok

(***************************************************************************)
(* Round trips                                                             *)
(***************************************************************************)
\* C1: Decoder::Base64 and Decoder::Base64Url return exactly the bytes b,
\* into N = Len(b), for the RFC 4648 encoding of b in their alphabet, with
\* the '=' padding and without it.
C1_Base64RoundTrip ==
    (Done /\ sample.how \in {"base64", "base64_no_pad", "base64url", "base64url_no_pad"})
        => result[1] = Ok(sample.plain)

\* "-_8=" is decoded back to the two bytes it encodes.
C1_Witness ==
    /\ Done
    /\ sample.how = "base64url"
    /\ sample.plain = << 251, 255 >>
    /\ input = << 45, 95, 56, 61 >>
    /\ result[1] = Ok(<< 251, 255 >>)

\* C2: Decoder::Hex returns b for the lower-case and for the upper-case hex
\* digits of b, and Decoder::custom("0123456789abcdef") returns b for the
\* lower-case digits.
C2_HexRoundTrip ==
    (Done /\ (\/ sample.how \in {"hex", "hex_upper"}
              \/ sample.how = "custom" /\ sample.alphabet = HEX_LOWER))
        => result[1] = Ok(sample.plain)

\* "FBA5" is decoded to the bytes 0xfb, 0xa5.
C2_Witness ==
    /\ Done
    /\ sample.how = "hex_upper"
    /\ input = << 70, 66, 65, 53 >>
    /\ result[1] = Ok(<< 251, 165 >>)

\* C3: for an alphabet of k = 1..6 bits per digit, Decoder::Custom returns
\* exactly b, N = Len(b) bytes, for the digits of b's bits cut into groups
\* of k, most significant first, the last group filled with zeros.
C3_CustomRoundTrip ==
    (Done /\ sample.how = "custom")
        => /\ decoder.encoding.bits_per_char \in 1 .. 6
           /\ Len(sample.alphabet) = Pow2(decoder.encoding.bits_per_char)
           /\ result[1] = Ok(sample.plain)
           /\ Len(result[1].val) = N

\* A Bech32 string whose last digit carries filler bits is decoded back.
C3_Witness ==
    /\ Done
    /\ sample.how = "custom"
    /\ sample.alphabet = BECH32_ALPHABET
    /\ Len(sample.plain) = 3
    /\ state.filled_bits # 0
    /\ result[1] = Ok(sample.plain)

(***************************************************************************)
(* The reference the state machines are compared with: the digits of the   *)
(* characters fed so far, as one string of bits.                           *)
(***************************************************************************)
Generic == decoder.kind # "Hex"

\* The panics of lookup and byte_value: an input character was refused.
InputCharPanic(r) ==
    ~r.ok /\ r.err.kind \in {"unmapped_char", "invalid_hex_digit", "index_out_of_bounds"}

\* The input was read to its end: no non-skipped character was refused.
AllCharsValid == Done /\ ~InputCharPanic(result[1])

\* Bits per digit of the alphabet in use.
RefK == Log2(Len(sample.alphabet))

\* The digit a character stands for: its place in the alphabet.
DigitOf(ch) == CHOOSE d \in 0 .. Len(sample.alphabet) - 1 : sample.alphabet[d + 1] = ch

\* The characters fed that are digits: all but the '=' of Base64 / Base64Url.
FedDigitChars ==
    IF decoder.kind \in {"Base64", "Base64Url"}
    THEN SelectSeq(fed, LAMBDA ch : ch # 61)
    ELSE fed

DigitBits(d, k) == [i \in 1 .. k |-> (d \div Pow2(k - i)) % 2]

RefBits ==
    Flatten([i \in 1 .. Len(FedDigitChars) |-> DigitBits(DigitOf(FedDigitChars[i]), RefK)])

\* The number of bytes the characters fed so far decode to.
RefEmitted == IF Generic THEN Len(RefBits) \div 8 ELSE Len(fed) \div 2

(***************************************************************************)
(* Bit packing, lengths and finality                                       *)
(***************************************************************************)
\* C4: a generic decoder with k bits per digit that was fed n valid digit
\* characters has put out floor(n * k / 8) bytes, and its j-th byte is bits
\* [8j, 8j + 8) of the n digits written one after the other, most
\* significant bit first.
C4_BitPacking ==
    Generic =>
        LET bits == RefBits IN
        /\ RefK = state.table.bits_per_char
        /\ Len(emitted) = (Len(FedDigitChars) * RefK) \div 8
        /\ \A j \in 1 .. Len(emitted) :
               emitted[j] = BitsValue(SubSeq(bits, 8 * (j - 1) + 1, 8 * j))

\* Octal "766" has put out the one byte 0o76 * 4 + 3.
C4_Witness ==
    /\ Done
    /\ sample.alphabet = OCT_ALPHABET
    /\ input = << 55, 54, 54 >>
    /\ emitted = << 251 >>

\* C5: when no non-skipped character is refused, the call returns only if
\* the bytes emitted over the whole input are exactly N; with fewer it
\* panics with the underflow message and with more with the overflow
\* message, each naming the total the input decodes to, and N.
C5_ExactLength ==
    AllCharsValid =>
        /\ result[1].ok => RefEmitted = N
        /\ RefEmitted < N =>
               result[1] = Panic([kind |-> "underflow", emitted |-> RefEmitted,
                                  expected |-> N])
        /\ RefEmitted > N =>
               result[1] = Panic([kind |-> "overflow", emitted |-> RefEmitted,
                                  expected |-> N])

\* Three bytes into a buffer of one: the overflow names 3, not 2.
C5_Witness ==
    /\ Done
    /\ N = 1
    /\ Len(emitted) = 3
    /\ result[1] = Panic([kind |-> "overflow", emitted |-> 3, expected |-> 1])

\* C6: the hex machine is final exactly when no nibble is pending, which is
\* after an even number of digits; a Hex call that was fed an odd number of
\* digits and emitted N bytes panics with the leftover-state message.
C6_HexTruncation ==
    decoder.kind = "Hex" =>
        /\ DecoderState_is_final(state) <=> state.pending = None
        /\ state.pending = None <=> Len(fed) % 2 = 0
        /\ (AllCharsValid /\ Len(fed) % 2 = 1 /\ Len(fed) \div 2 = N)
               => result[1] = Panic([kind |-> "leftover_state"])

\* "012" into one byte.
C6_Witness ==
    /\ Done
    /\ decoder.kind = "Hex"
    /\ input = << 48, 49, 50 >>
    /\ N = 1
    /\ emitted = << 1 >>
    /\ result[1] = Panic([kind |-> "leftover_state"])

\* C7: a Base64, Base64Url or Custom call that read its whole input and
\* emitted N bytes returns exactly when the partial byte, which holds the
\* bits left over after the last full byte, is 0, whatever filled_bits is;
\* otherwise it panics with the leftover-state message.
C7_GenericFinality ==
    (Generic /\ AllCharsValid /\ Len(emitted) = N) =>
        LET bits == RefBits IN
        /\ state.partial_byte = BitsValue(SubSeq(bits, 8 * N + 1, Len(bits)))
        /\ state.filled_bits = Len(bits) - 8 * N
        /\ result[1].ok <=> state.partial_byte = 0
        /\ ~result[1].ok => result[1] = Panic([kind |-> "leftover_state"])

\* Bech32 "ql": one byte and two surplus bits that are not zero.
C7_Witness ==
    /\ Done
    /\ sample.alphabet = BECH32_ALPHABET
    /\ input = << 113, 108 >>
    /\ N = 1
    /\ state.filled_bits = 2
    /\ state.partial_byte = 3
    /\ result[1] = Panic([kind |-> "leftover_state"])

(***************************************************************************)
(* Padding, whitespace and PEM framing: the call that ran is compared with *)
(* the decoding of the input rewritten.                                    *)
(***************************************************************************)
\* The text without the '=' characters at its end.
RECURSIVE StripPadding(_)
StripPadding(text) ==
    IF text # << >> /\ text[Len(text)] = 61
    THEN StripPadding(SubSeq(text, 1, Len(text) - 1))
    ELSE text

Padding(j) == [i \in 1 .. j |-> 61]

\* C8: when Decoder::Base64 or Decoder::Base64Url decodes a body into N
\* bytes, it decodes the body with its trailing '=' removed, and with any
\* number of '=' put after it, into the same N bytes.
C8_PaddingTolerance ==
    (Returned /\ decoder.kind \in {"Base64", "Base64Url"} /\ skipper = None) =>
        \A j \in 0 .. MaxPad :
            /\ Decoder_decode(decoder, StripPadding(input) \o Padding(j), N) = result[1]
            /\ Decoder_decode(decoder, input \o Padding(j), N) = result[1]

\* "QQ==" decodes to "A", as "QQ", "QQ=" and "QQ===" do.
C8_Witness ==
    /\ Done
    /\ decoder.kind = "Base64"
    /\ skipper = None
    /\ input = << 81, 81, 61, 61 >>
    /\ result[1] = Ok(<< 65 >>)
    /\ Decoder_decode(decoder, << 81, 81 >>, N) = Ok(<< 65 >>)
    /\ Decoder_decode(decoder, << 81, 81, 61, 61, 61 >>, N) = Ok(<< 65 >>)

\* The ASCII whitespace bytes: space, \t, \n, form feed, \r.
WHITESPACE == << 32, 9, 10, 12, 13 >>

\* Runs of whitespace of 1 .. MaxRun bytes: one of each length from each
\* whitespace byte on, going round WHITESPACE.
WhitespaceRuns ==
    { [i \in 1 .. n |-> WHITESPACE[((first + i - 2) % Len(WHITESPACE)) + 1]]
      : first \in 1 .. Len(WHITESPACE), n \in 1 .. MaxRun }

\* `run` put into `text` before position p (p = Len(text): after its end).
InsertAt(text, p, run) == SubSeq(text, 1, p) \o run \o SubSeq(text, p + 1, Len(text))

\* Position p lies inside a PEM marker line the call skipped: after the
\* first dash of the marker and before the end of its line.
InsideMarker(p) == \E mk \in markers : mk[1] < p /\ p < mk[2]

\* C9 as claimed: under the Whitespace or the Pem policy, a run of whitespace
\* put at any position of an input that decodes into N bytes leaves the
\* result unchanged.
C9_WhitespaceAnywhere ==
    (Returned /\ skipper # None) =>
        \A p \in 0 .. Len(input) : \A run \in WhitespaceRuns :
            do_decode(decoder, InsertAt(input, p, run), skipper, N) = result[1]

\* C9, amended: ... at any position that is not inside a PEM marker line ...
C9_WhitespaceOutsideMarkers ==
    (Returned /\ skipper # None) =>
        \A p \in 0 .. Len(input) : \A run \in WhitespaceRuns :
            ~InsideMarker(p) =>
                do_decode(decoder, InsertAt(input, p, run), skipper, N) = result[1]

\* "-----\nQQ" under the Pem policy: whitespace before the marker, after its
\* line and between the digits changes nothing.
C9_Witness ==
    /\ Done
    /\ skipper = Some("Pem")
    /\ input = << 45, 45, 45, 45, 45, 10, 81, 81 >>
    /\ markers = {<< 0, 5 >>}
    /\ result[1] = Ok(<< 65 >>)
    /\ do_decode(decoder, InsertAt(input, 7, << 13, 10 >>), skipper, N) = Ok(<< 65 >>)
    /\ do_decode(decoder, InsertAt(input, 0, << 32 >>), skipper, N) = Ok(<< 65 >>)

\* "X", "PRIVATE KEY", "" and "A-B\r"
Labels ==
    { << 88 >>, << 80, 82, 73, 86, 65, 84, 69, 32, 75, 69, 89 >>, << >>,
      << 65, 45, 66, 13 >> }

\* "-----BEGIN " and "-----END "
BEGIN_MARK == << 45, 45, 45, 45, 45, 66, 69, 71, 73, 78, 32 >>
END_MARK == << 45, 45, 45, 45, 45, 69, 78, 68, 32 >>

\* Whitespace around the framed body: none, " ", "\n", "\t\r\n".
Margins == { << >>, << 32 >>, << 10 >>, << 9, 13, 10 >> }

\* The body on its own line between a BEGIN line and an END line with the
\* label; `last` is the end of the END line: "\n" or nothing.
PemFrame(before, label, body, last, after) ==
    before \o BEGIN_MARK \o label \o DASHES \o << 10 >>
           \o body \o << 10 >>
           \o END_MARK \o label \o DASHES \o last \o after

\* C10: a Base64 body that Decoder::Base64 decodes into N bytes, framed by a
\* BEGIN line and an END line (the END line with its newline or without)
\* and surrounded by whitespace, is decoded by Pem::decode into the same N
\* bytes.
C10_PemFraming ==
    (Returned /\ decoder.kind = "Base64" /\ skipper = None) =>
        \A label \in Labels : \A before \in Margins : \A after \in Margins :
            \A last \in {<< >>, << 10 >>} :
                Pem_decode(PemFrame(before, label, input, last, after), N) = result[1]

\* "AAAA" decodes to three zero bytes, on its own and inside
\* " -----BEGIN X-----\nAAAA\n-----END X-----".
C10_Witness ==
    /\ Done
    /\ decoder.kind = "Base64"
    /\ skipper = None
    /\ input = << 65, 65, 65, 65 >>
    /\ result[1] = Ok(<< 0, 0, 0 >>)
    /\ Pem_decode(PemFrame(<< 32 >>, << 88 >>, input, << >>, << >>), N) = Ok(<< 0, 0, 0 >>)

\* The driver as actions and the driver as a function agree on every call.
DriverAgrees == Done => result[1] = do_decode(decoder, input, skipper, N)


(***************************************************************************)
(* Characters the state machines refuse                                    *)
(***************************************************************************)
\* "0123456789abcdefABCDEF"
HexDigits ==
    {HEX_LOWER[i] : i \in 1 .. Len(HEX_LOWER)} \cup {HEX_UPPER[i] : i \in 1 .. Len(HEX_UPPER)}

\* ch is a digit of the decoder in use.
IsDigit(ch) ==
    IF Generic THEN \E i \in 1 .. Len(sample.alphabet) : sample.alphabet[i] = ch
    ELSE ch \in HexDigits

\* ch is the '=' that Base64 and Base64Url pass over.
IsPadding(ch) == decoder.kind \in {"Base64", "Base64Url"} /\ ch = 61

Accepted(ch) == IsDigit(ch) \/ IsPadding(ch)

IsWhitespace(ch) == \E i \in 1 .. Len(WHITESPACE) : WHITESPACE[i] = ch

NonWhitespace(text) == SelectSeq(text, LAMBDA ch : ~IsWhitespace(ch))

\* Without a skipper, or with Skipper::Whitespace: input[i] is not skipped
\* and is not accepted (i counts from 1).
RefusedAt(i) ==
    /\ ~Accepted(input[i])
    /\ skipper = None \/ ~IsWhitespace(input[i])

\* What the state machine is fed of input[0 .. in_index) without a skipper
\* and with Skipper::Whitespace.
ExpectedFed ==
    IF skipper = None THEN SubSeq(input, 1, in_index)
    ELSE NonWhitespace(SubSeq(input, 1, in_index))

\* C11: in a Base64, Base64Url or Custom decode only digits of the alphabet
\* (and '=' for Base64 and Base64Url) are taken; the first non-skipped
\* character that is not one of them ends the call, and when it is an ASCII
\* character the panic is the unmapped-character one, naming it.  Base64
\* refuses '-' and '_', Base64Url refuses '+' and '/'.
C11_UnmappedRejected ==
    Generic =>
        /\ \A i \in 1 .. Len(fed) : Accepted(fed[i])
        /\ (Done /\ in_index < Len(input)) =>
               LET ch == input[in_index + 1] IN
               /\ ~Accepted(ch)
               /\ ch < 128 => result[1] = Panic([kind |-> "unmapped_char", ch |-> ch])
        /\ (Done /\ skipper # Some("Pem")) =>
               /\ fed = ExpectedFed
               /\ \A i \in 1 .. Len(input) :
                      RefusedAt(i) => (in_index < i /\ InputCharPanic(result[1]))
        /\ (Done /\ decoder.kind = "Base64") =>
               \A i \in 1 .. Len(fed) : fed[i] \notin {45, 95}
        /\ (Done /\ decoder.kind = "Base64Url") =>
               \A i \in 1 .. Len(fed) : fed[i] \notin {43, 47}

\* "A_/" under Decoder::Base64: '_' is refused.
C11_Witness ==
    /\ Done
    /\ decoder.kind = "Base64"
    /\ skipper = None
    /\ input = << 65, 95, 47 >>
    /\ fed = << 65 >>
    /\ in_index = 1
    /\ result[1] = Panic([kind |-> "unmapped_char", ch |-> 95])

\* C12: in a Hex decode only 0-9, A-F and a-f are taken; the first
\* non-skipped byte that is none of them, wherever it stands, ends the call
\* with the invalid-hex-digit panic naming it.  Without a skipper '=' and
\* whitespace are such bytes.
C12_HexValidation ==
    decoder.kind = "Hex" =>
        /\ \A i \in 1 .. Len(fed) : fed[i] \in HexDigits
        /\ fed = ExpectedFed
        /\ (Done /\ in_index < Len(input)) =>
               LET ch == input[in_index + 1] IN
               /\ ch \notin HexDigits
               /\ result[1] = Panic([kind |-> "invalid_hex_digit", ch |-> ch])
        /\ Done =>
               \A i \in 1 .. Len(input) :
                   RefusedAt(i) => (in_index < i /\ InputCharPanic(result[1]))
        /\ (Done /\ skipper = None /\ \E i \in 1 .. Len(input) :
                                         input[i] = 61 \/ IsWhitespace(input[i]))
               => InputCharPanic(result[1])

\* "0F=0" under Decoder::Hex: the '=' after a whole byte is refused.
C12_Witness ==
    /\ Done
    /\ decoder.kind = "Hex"
    /\ skipper = None
    /\ input = << 48, 70, 61, 48 >>
    /\ emitted = << 15 >>
    /\ in_index = 2
    /\ result[1] = Panic([kind |-> "invalid_hex_digit", ch |-> 61])

\* `text` holds "-----".
HasMarker(text) ==
    \E i \in 1 .. Len(text) - Len(DASHES) + 1 : SubSeq(text, i, i + Len(DASHES) - 1) = DASHES

\* C16: Decoder::decode skips nothing: the state machine is fed every byte
\* of the input in order, so a whitespace byte, or a "-----" marker, that
\* is not made of digits of the alphabet ends the call with an
\* input-character panic; SkipWhitespace::decode of the same input is the
\* decoding of the input without its whitespace.
C16_NothingSkipped ==
    skipper = None =>
        /\ fed = SubSeq(input, 1, in_index)
        /\ markers = {}
        /\ (Done /\ \E i \in 1 .. Len(input) : IsWhitespace(input[i]) /\ ~IsDigit(input[i]))
               => InputCharPanic(result[1])
        /\ (Done /\ HasMarker(input) /\ ~IsDigit(45)) => InputCharPanic(result[1])
        /\ Done => SkipWhitespace_decode(decoder, input, N)
                        = Decoder_decode(decoder, NonWhitespace(input), N)

\* "0\nF": Decoder::Hex refuses the newline, SkipWhitespace(Decoder::Hex)
\* decodes the byte 0x0f.
C16_Witness ==
    /\ Done
    /\ decoder.kind = "Hex"
    /\ skipper = None
    /\ input = << 48, 10, 70 >>
    /\ N = 1
    /\ result[1] = Panic([kind |-> "invalid_hex_digit", ch |-> 10])
    /\ SkipWhitespace_decode(decoder, input, N) = Ok(<< 15 >>)


(***************************************************************************)
(* Encoding::new                                                           *)
(***************************************************************************)
ALPHABET_LENGTHS == {2, 4, 8, 16, 32, 64}

IsAscii(ch) == ch <= 127

\* The characters of the alphabet are ASCII and pairwise distinct.
DistinctAscii(alphabet) ==
    /\ \A i \in 1 .. Len(alphabet) : IsAscii(alphabet[i])
    /\ \A i, j \in 1 .. Len(alphabet) : alphabet[i] = alphabet[j] => i = j

\* Decoder::custom has been called.
Constructed == sample.how = "alphabet" /\ pc # "new"

\* C13: for pairwise distinct ASCII characters in a string of length 2, 4,
\* 8, 16, 32 or 64, Encoding::new returns an encoding whose bits_per_char is
\* log2 of the length, whose table maps the i-th character to the digit i
\* and every other ASCII byte value to no digit; lookup then returns only
\* digits below 2^bits_per_char.
C13_TableConstruction ==
    (Constructed /\ Len(sample.alphabet) \in ALPHABET_LENGTHS
                 /\ DistinctAscii(sample.alphabet)) =>
        /\ decoder # None
        /\ LET alphabet == sample.alphabet
               encoding == decoder.encoding
           IN
           /\ Pow2(encoding.bits_per_char) = Len(alphabet)
           /\ encoding.bits_per_char = Log2(Len(alphabet))
           /\ DOMAIN encoding.table = 0 .. 127
           /\ \A i \in 0 .. Len(alphabet) - 1 : encoding.table[alphabet[i + 1]] = i
           /\ Cardinality({b \in 0 .. 127 : encoding.table[b] = NO_MAPPING})
                  = 128 - Len(alphabet)
           /\ \A b \in 0 .. 127 :
                  LET digit == Encoding_lookup(encoding, b) IN
                  IF \E i \in 1 .. Len(alphabet) : alphabet[i] = b
                  THEN /\ digit.ok
                       /\ digit.val < Pow2(encoding.bits_per_char)
                       /\ alphabet[digit.val + 1] = b
                  ELSE /\ encoding.table[b] = NO_MAPPING
                       /\ ~digit.ok

\* The 64 characters from '<' on: the alphabet, read as input, has been
\* decoded digit by digit into 48 bytes.
C13_Witness ==
    /\ Done
    /\ sample.how = "alphabet"
    /\ sample.alphabet = [i \in 1 .. 64 |-> 59 + i]
    /\ decoder.encoding.bits_per_char = 6
    /\ decoder.encoding.table[60] = 0
    /\ decoder.encoding.table[123] = 63
    /\ Len(fed) = 64
    /\ result[1].ok
    /\ Len(result[1].val) = 48

\* The first place, counted from 0, whose character is not ASCII or stands
\* at an earlier place too.
Offends(alphabet, i) ==
    \/ ~IsAscii(alphabet[i + 1])
    \/ \E j \in 0 .. i - 1 : alphabet[j + 1] = alphabet[i + 1]

FirstOffence(alphabet) ==
    CHOOSE i \in 0 .. Len(alphabet) - 1 :
        Offends(alphabet, i) /\ \A j \in 0 .. i - 1 : ~Offends(alphabet, j)

C15_LengthInference ==
    (Done /\ sample.how = "macro") =>
        /\ result[1].ok <=>
               \E n \in 0 .. Len(input) + 1 : do_decode(decoder, input, skipper, n).ok
        /\ \A n \in 0 .. Len(input) + 1 :
               do_decode(decoder, input, skipper, n).ok =>
                   /\ n = N
                   /\ result[1] = do_decode(decoder, input, skipper, n)
        /\ result[1].ok => Len(result[1].val) = N /\ result[1].val = emitted
        /\ ~result[1].ok => result[1].err.kind \notin {"overflow", "underflow"}

\* decode!(Decoder::Hex.skip_whitespace(), b"F \na") is the one byte that
\* decode::<1> returns.
C15_Witness ==
    /\ Done
    /\ sample.how = "macro"
    /\ decoder.kind = "Hex"
    /\ skipper = Some("Whitespace")
    /\ input = << 70, 32, 10, 97 >>
    /\ N = 1
    /\ result[1] = Ok(<< 250 >>)
    /\ SkipWhitespace_decode(decoder, input, 1) = Ok(<< 250 >>)


(***************************************************************************)
(* The result of a call                                                    *)
(***************************************************************************)
\* input[i] (i counts from 1) is skipped: whitespace under either skipper;
\* under Skipper::Pem also what stands on a line from its "-----" on.
Skipped(i) ==
    /\ skipper # None
    /\ \/ IsWhitespace(input[i])
       \/ /\ skipper = Some("Pem")
          /\ \E s \in 1 .. i :
                 /\ s + Len(DASHES) - 1 <= Len(input)
                 /\ SubSeq(input, s, s + Len(DASHES) - 1) = DASHES
                 /\ \A t \in s .. i : input[t] # 10

\* The characters of the input that are not skipped, in their order.
RECURSIVE NonSkippedFrom(_)
NonSkippedFrom(i) ==
    IF i > Len(input) THEN << >>
    ELSE IF Skipped(i) THEN NonSkippedFrom(i + 1)
    ELSE << input[i] >> \o NonSkippedFrom(i + 1)

\* Every character that is not skipped is one the decoder takes.
AllNonSkippedValid == \A i \in 1 .. Len(input) : Skipped(i) \/ Accepted(input[i])

\* The bits of the digits fed that did not make a whole byte are zero; for
\* Hex, the digits fed are even in number.
RefFinal ==
    IF Generic
    THEN LET bits == RefBits IN
         BitsValue(SubSeq(bits, 8 * (Len(bits) \div 8) + 1, Len(bits))) = 0
    ELSE Len(fed) % 2 = 0

PANIC_KINDS ==
    { "unmapped_char", "invalid_hex_digit", "index_out_of_bounds",
      "overflow", "underflow", "leftover_state" }

\* C17: a call returns an array exactly when every character that is not
\* skipped is valid, the bytes put out are N in number and the final state
\* is final; the array then holds the N bytes.  In every other case the
\* call ended in one panic, at the first character refused or after the
\* input, and there is no array.
C17_AllOrNothing ==
    Done =>
        LET r == result[1] IN
        /\ Len(result) = 1
        /\ AllNonSkippedValid => (in_index = Len(input) /\ fed = NonSkippedFrom(1))
        /\ ~AllNonSkippedValid =>
               /\ in_index < Len(input)
               /\ ~Skipped(in_index + 1)
               /\ ~Accepted(input[in_index + 1])
               /\ \A i \in 1 .. in_index : Skipped(i) \/ Accepted(input[i])
               /\ InputCharPanic(r)
        /\ r.ok <=> (AllNonSkippedValid /\ RefEmitted = N /\ RefFinal)
        /\ r.ok => (DOMAIN r = {"ok", "val"} /\ r.val = emitted /\ Len(r.val) = N)
        /\ ~r.ok => (DOMAIN r = {"ok", "err"} /\ r.err.kind \in PANIC_KINDS)

\* "QQ\n-----" under Pem::decode into two bytes: every character valid or
\* skipped, one byte put out and stored - and no array.
C17_Witness ==
    /\ Done
    /\ skipper = Some("Pem")
    /\ input = << 81, 81, 10, 45, 45, 45, 45, 45 >>
    /\ N = 2
    /\ AllNonSkippedValid
    /\ fed = << 81, 81 >>
    /\ bytes = << 65, 0 >>
    /\ result[1] = Panic([kind |-> "underflow", emitted |-> 1, expected |-> 2])

(***************************************************************************)
(* The output buffer and the state of the generic machine                  *)
(***************************************************************************)
\* C19: the buffer has N elements; out_index counts every byte put out;
\* element i holds the i-th byte put out when there is one among the first
\* N, and is untouched otherwise: bytes put out after the N-th are counted
\* and written nowhere, and no element is written twice.
C19_BufferSafety ==
    /\ Len(bytes) = N
    /\ out_index = Len(emitted)
    /\ \A i \in 1 .. N : bytes[i] = IF i <= Len(emitted) THEN emitted[i] ELSE 0

\* Binary "0110111001100110" into one byte: two bytes were put out, the
\* buffer holds the first.
C19_Witness ==
    /\ Done
    /\ N = 1
    /\ out_index = 2
    /\ emitted = << 110, 102 >>
    /\ bytes = << 110 >>
    /\ result[1] = Panic([kind |-> "overflow", emitted |-> 2, expected |-> 1])

\* The branch of CustomDecoderState::update the next digit takes is the
\* third, where the digit straddles two bytes.
Straddling == state.filled_bits > 8 - state.table.bits_per_char

\* C20: in every state of the generic machine, with k bits per digit
\* (1..6), filled_bits is in 0..7 and is (digits fed * k) mod 8, and
\* partial_byte < 2^filled_bits; with k in {1, 2, 4} no digit straddles two
\* bytes, so the third branch is taken only with k in {3, 5, 6}.
C20_GenericStateInvariant ==
    (Generic /\ state # None) =>
        LET k == state.table.bits_per_char IN
        /\ k \in 1 .. 6
        /\ state.filled_bits \in 0 .. 7
        /\ state.filled_bits = (Len(FedDigitChars) * k) % 8
        /\ state.partial_byte < Pow2(state.filled_bits)
        /\ k \in {1, 2, 4} => ~Straddling
        /\ Straddling => k \in {3, 5, 6}

\* Base64 "A/=": the '/' straddled two bytes, four of its bits are held.
C20_Witness ==
    /\ decoder.kind = "Base64"
    /\ fed = << 65, 47, 61 >>
    /\ emitted = << 3 >>
    /\ state.filled_bits = 4
    /\ state.partial_byte = 15
    /\ Straddling


(***************************************************************************)
(* Calls made one after the other                                          *)
(***************************************************************************)
\* The state Decoder::new_state makes: nothing pending, nothing held, and
\* the table of the decoder's alphabet.
Fresh ==
    IF decoder.kind = "Hex" THEN state = [tag |-> "Hex", pending |-> None]
    ELSE /\ state.partial_byte = 0
         /\ state.filled_bits = 0
         /\ state.table = Encoding_new(sample.alphabet).val

\* C18: a call starts from the fresh state whatever calls were made on the
\* decoder before it and however they ended; the decoder and its table are
\* those the decoder was made with; and the outcome of the call is the
\* function do_decode of (decoder, skip policy, input, N) alone.
C18_Stateless ==
    /\ (pc = "loop" /\ fed = << >>) => Fresh
    /\ decoder.kind = "Custom" => decoder.encoding = Encoding_new(sample.alphabet).val
    /\ Generic => state.table = Encoding_new(sample.alphabet).val
    /\ decoder.kind = "Hex" <=> sample.alphabet = << >>
    /\ Done => result[1] = do_decode(decoder, input, skipper, N)

\* Decoder::Hex decodes "0F" after a call on it that ended with a nibble
\* pending.
C18_Witness ==
    /\ Done
    /\ sample.how = "after_leftover_state"
    /\ decoder.kind = "Hex"
    /\ skipper = None
    /\ input = << 48, 70 >>
    /\ N = 1
    /\ result[1] = Ok(<< 15 >>)


(***************************************************************************)
(* One step of the state machines, for every digit                         *)
(***************************************************************************)
\* Bitwise OR of two naturals.
RECURSIVE BitOr(_, _)
BitOr(a, b) ==
    IF a = 0 /\ b = 0 THEN 0
    ELSE (IF a % 2 = 1 \/ b % 2 = 1 THEN 1 ELSE 0) + 2 * BitOr(a \div 2, b \div 2)

\* The digits of the alphabet in use.
Digits == 0 .. Len(sample.alphabet) - 1

\* C21: from every state of the generic machine, with k bits per digit, a
\* digit d that arrives with filled_bits > 8 - k puts out
\* (partial << remaining) | (d >> leftover), remaining = 8 - filled_bits and
\* leftover = k - remaining, and leaves partial = d mod 2^leftover and
\* filled_bits = leftover; with filled_bits = 8 - k it puts out
\* (partial << k) | d and leaves (0, 0); with filled_bits < 8 - k it puts
\* out nothing and leaves partial = (partial << k) | d, filled_bits + k.
C21_Transitions ==
    (Generic /\ state # None) =>
        LET k == RefK
            partial == state.partial_byte
            filled_bits == state.filled_bits
            remaining == 8 - filled_bits
            leftover == k - remaining
        IN
        \A d \in Digits :
            LET update == CustomDecoderState_update(state, sample.alphabet[d + 1]) IN
            /\ update.ok
            /\ update.val.state.table = state.table
            /\ filled_bits > 8 - k =>
                   /\ update.val.output
                          = Some(BitOr(partial * Pow2(remaining), d \div Pow2(leftover)))
                   /\ update.val.state.partial_byte = d % Pow2(leftover)
                   /\ update.val.state.filled_bits = leftover
            /\ filled_bits = 8 - k =>
                   /\ update.val.output = Some(BitOr(partial * Pow2(k), d))
                   /\ update.val.state.partial_byte = 0
                   /\ update.val.state.filled_bits = 0
            /\ filled_bits < 8 - k =>
                   /\ update.val.output = None
                   /\ update.val.state.partial_byte = BitOr(partial * Pow2(k), d)
                   /\ update.val.state.filled_bits = filled_bits + k

\* Bech32 "l5": the '5' (digit 20) came with 5 bits held; it put out
\* (31 << 3) | (20 >> 2) and left 20 mod 4 in 2 bits.
C21_Witness ==
    /\ sample.alphabet = BECH32_ALPHABET
    /\ fed = << 108, 53 >>
    /\ emitted = << 253 >>
    /\ state.partial_byte = 0
    /\ state.filled_bits = 2


\* a + b carries nowhere: the sum is the bitwise OR.
NoCarry(a, b) == BitOr(a, b) = a + b

\* x is a value of u8.
InU8(x) == x \in 0 .. U8 - 1

\* The computations of CustomDecoderState::update, branch by branch.
C22_CustomNoOverflow ==
    LET k == RefK
        partial == state.partial_byte
        filled_bits == state.filled_bits
        remaining == 8 - filled_bits
        leftover == k - remaining
    IN
    /\ InU8(8 - k)
    /\ \A d \in Digits :
           /\ Encoding_lookup(state.table, sample.alphabet[d + 1]) = Ok(d)
           /\ filled_bits <= 8 - k =>
                  /\ InU8(partial * Pow2(k))
                  /\ InU8(partial * Pow2(k) + d)
                  /\ NoCarry(partial * Pow2(k), d)
                  /\ Shl(partial, k) = partial * Pow2(k)
           /\ filled_bits < 8 - k => InU8(filled_bits + k)
           /\ filled_bits > 8 - k =>
                  /\ InU8(remaining)
                  /\ InU8(leftover)
                  /\ InU8(partial * Pow2(remaining))
                  /\ InU8(partial * Pow2(remaining) + d \div Pow2(leftover))
                  /\ NoCarry(partial * Pow2(remaining), d \div Pow2(leftover))
                  /\ Shl(partial, remaining) = partial * Pow2(remaining)

\* The computation of HexDecoderState::update with a nibble pending.
C22_HexNoOverflow ==
    state.pending # None =>
        LET b == state.pending[1] IN
        \A ch \in HexDigits :
            LET d == HexDecoderState_byte_value(ch).val IN
            /\ InU8(b * 16)
            /\ InU8(b * 16 + d)
            /\ NoCarry(b * 16, d)
            /\ Shl(b, 4) = b * 16

\* C22: in every reachable state and for every valid digit the u8
\* computations of the two update functions stay within 0..255 without
\* wrapping: (partial << k) + d, (partial << remaining) + (d >> leftover),
\* filled_bits + k, 8 - k, 8 - filled_bits and k - remaining in
\* CustomDecoderState::update, (b << 4) + d in HexDecoderState::update; no
\* set bit is shifted out and each `+` adds numbers with no bit in common.
C22_NoOverflow ==
    state # None =>
        /\ Generic => C22_CustomNoOverflow
        /\ state.tag = "Hex" => C22_HexNoOverflow

\* Base64 "//": the second '/' came with 6 bits held, all set; it put out
\* (63 << 2) + (63 >> 4) = 255 and left 15 in 4 bits.
C22_Witness ==
    /\ decoder = Decoder_Base64
    /\ fed = << 47, 47 >>
    /\ emitted = << 255 >>
    /\ state.partial_byte = 15
    /\ state.filled_bits = 4


\* The value of a hex digit: its place among "0123456789abcdef" or
\* "0123456789ABCDEF".
HexValue(ch) == CHOOSE v \in 0 .. 15 : HEX_LOWER[v + 1] = ch \/ HEX_UPPER[v + 1] = ch

\* C23: the hex machine starts with no nibble pending; a valid hex digit
\* that finds none pending is kept as the pending nibble and nothing is put
\* out, one that finds a nibble pending puts out pending * 16 + value and
\* clears it; so after n digits floor(n / 2) bytes are out, the j-th made of
\* digits 2j - 1 and 2j, and a nibble is pending iff n is odd.
C23_HexMachine ==
    (decoder.kind = "Hex" /\ state # None) =>
        /\ HexDecoderState_new.pending = None
        /\ fed = << >> => state = HexDecoderState_new
        /\ \A ch \in HexDigits :
               LET update == HexDecoderState_update(state, ch) IN
               /\ update.ok
               /\ state.pending = None =>
                      /\ update.val.output = None
                      /\ update.val.state.pending = Some(HexValue(ch))
               /\ state.pending # None =>
                      /\ update.val.output = Some(state.pending[1] * 16 + HexValue(ch))
                      /\ update.val.state.pending = None
        /\ Len(emitted) = Len(fed) \div 2
        /\ \A j \in 1 .. Len(emitted) :
               emitted[j] = HexValue(fed[2 * j - 1]) * 16 + HexValue(fed[2 * j])
        /\ state.pending # None <=> Len(fed) % 2 = 1
        /\ state.pending # None => state.pending = Some(HexValue(fed[Len(fed)]))

\* "a55": one byte out, the second 5 pending.
C23_Witness ==
    /\ decoder.kind = "Hex"
    /\ fed = << 97, 53, 53 >>
    /\ emitted = << 165 >>
    /\ state.pending = Some(5)


(***************************************************************************)
(* The '=' sign                                                            *)
(***************************************************************************)
\* C24: Base64 and Base64Url take a '=' at any place of the input without
\* looking it up: nothing is put out and partial_byte and filled_bits stay
\* as they are; for Custom and Hex a '=' is a character like any other: it
\* goes through the lookup (a digit if the alphabet has it, refused if not)
\* and through the parsing of hex digits (refused).
C24_PaddingSign ==
    state # None =>
        LET update == DecoderState_update(state, 61) IN
        /\ decoder.kind \in {"Base64", "Base64Url"} =>
               /\ state.tag = "Base64"
               /\ Encoding_lookup(state.table, 61) = Panic([kind |-> "unmapped_char", ch |-> 61])
               /\ update = Ok([state |-> state, output |-> None])
               /\ Len(emitted) = (Len(FedDigitChars) * 6) \div 8
               /\ state.filled_bits = (Len(FedDigitChars) * 6) % 8
        /\ decoder.kind = "Hex" =>
               /\ update = Panic([kind |-> "invalid_hex_digit", ch |-> 61])
               /\ \A i \in 1 .. Len(fed) : fed[i] # 61
        /\ decoder.kind = "Custom" =>
               /\ state.tag = "Custom"
               /\ update = CustomDecoderState_update(state, 61)
               /\ ~IsDigit(61) =>
                      /\ update = Panic([kind |-> "unmapped_char", ch |-> 61])
                      /\ \A i \in 1 .. Len(fed) : fed[i] # 61
               /\ IsDigit(61) =>
                      /\ update.ok
                      /\ update.val.state.filled_bits = (state.filled_bits + RefK) % 8
                      /\ update.val.output # None <=> state.filled_bits + RefK >= 8
                      /\ Len(emitted) = (Len(fed) * RefK) \div 8

\* Base64 "A=/": the '=' between two digits was taken and left no trace.
C24_Witness ==
    /\ decoder = Decoder_Base64
    /\ fed = << 65, 61, 47 >>
    /\ emitted = << 3 >>
    /\ state.partial_byte = 15
    /\ state.filled_bits = 4


(***************************************************************************)
(* Skipper::skip, step by step                                             *)
(***************************************************************************)
\* C25: at every position p of every input, Skipper::skip of the Whitespace
\* policy returns p + 1 when input[p] is ASCII whitespace (space, tab, LF,
\* FF, CR) and p when it is not; the Pem policy too moves past a whitespace
\* byte by one, whatever follows it, dashes included; and the loop of a
\* call with a skip policy that stands on a whitespace byte moves by one.
C25_WhitespaceStep ==
    /\ \A p \in 0 .. Len(input) - 1 :
           LET ch == input[p + 1] IN
           /\ Skipper_skip("Whitespace", input, p) = IF IsWhitespace(ch) THEN p + 1 ELSE p
           /\ IsWhitespace(ch) =>
                  /\ Skipper_skip("Pem", input, p) = p + 1
                  /\ Skipper_skip("Pem", << ch >> \o DASHES \o input, 0) = 1
    /\ (skipper # None /\ in_index < Len(input) /\ IsWhitespace(input[in_index + 1]))
           => SkipTo(skipper, input, in_index) = in_index + 1
    /\ (skipper = Some("Whitespace") /\ in_index < Len(input)
           /\ ~IsWhitespace(input[in_index + 1]))
           => SkipTo(skipper, input, in_index) = in_index

\* Hex "1\fa" under Skipper::Whitespace: the form feed was stepped over.
C25_Witness ==
    /\ decoder.kind = "Hex"
    /\ skipper = Some("Whitespace")
    /\ input = << 49, 12, 97 >>
    /\ in_index = 2
    /\ fed = << 49 >>
    /\ pc = "loop"


\* input[p .. p + 5) is "-----" (p counts from 0).
FiveDashesAt(p) ==
    /\ p + Len(DASHES) <= Len(input)
    /\ \A j \in 1 .. Len(DASHES) : input[p + j] = DASHES[j]

\* A newline stands at position p or after it.
NewlineFrom(p) == \E i \in p .. Len(input) - 1 : input[i + 1] = 10

\* The position of the first newline at p or after it; the length of the
\* input when there is none.
NewlineAfter(p) ==
    IF NewlineFrom(p)
    THEN CHOOSE i \in p .. Len(input) - 1 :
             /\ input[i + 1] = 10
             /\ \A j \in p .. i - 1 : input[j + 1] # 10
    ELSE Len(input)

\* The positions where the Pem policy finds a marker.
MarkerStarts ==
    {p \in 0 .. Len(input) - 1 : ~IsWhitespace(input[p + 1]) /\ FiveDashesAt(p)}

\* C26 as stated: under the Pem policy, where input[p] is not whitespace
\* and input[p .. p + 5) is five dashes, skip(input, p) is the position just
\* past the next newline after the marker, or len(input) without a newline.
C26_PastNewline ==
    skipper = Some("Pem") =>
        \A p \in MarkerStarts :
            Skipper_skip("Pem", input, p)
                = IF NewlineFrom(p + 5) THEN NewlineAfter(p + 5) + 1 ELSE Len(input)

\* C26, amended: under the Pem policy, where input[p] is not whitespace and
\* input[p .. p + 5) is five dashes, skip(input, p) is the position of the
\* next newline after the marker, not the one past it, or len(input)
\* without a newline; the newline is stepped over as whitespace by the skip
\* step made there; the loop moves as skip says.
C26_ToNewline ==
    skipper = Some("Pem") =>
        /\ \A p \in MarkerStarts :
               LET end == Skipper_skip("Pem", input, p) IN
               /\ end = NewlineAfter(p + 5)
               /\ end < Len(input) =>
                      /\ input[end + 1] = 10
                      /\ Skipper_skip("Pem", input, end) = end + 1
        /\ \A mk \in markers :
               /\ mk[1] \in MarkerStarts
               /\ mk[2] = NewlineAfter(mk[1] + 5)

\* "-----\nQQ": the marker at 0 took the loop to the newline at 5.
C26_Witness ==
    /\ skipper = Some("Pem")
    /\ input = << 45, 45, 45, 45, 45, 10, 81, 81 >>
    /\ markers = {<< 0, 5 >>}
    /\ in_index = 5
    /\ pc = "loop"


\* The characters of input[0 .. n) that are not skipped, in their order.
RECURSIVE NonSkippedUpTo(_)
NonSkippedUpTo(n) ==
    IF n = 0 THEN << >>
    ELSE IF Skipped(n) THEN NonSkippedUpTo(n - 1)
    ELSE Append(NonSkippedUpTo(n - 1), input[n])

\* input[p] is a dash that does not begin five dashes (p counts from 0).
ShortDashAt(p) == p < Len(input) /\ input[p + 1] = 45 /\ ~FiveDashesAt(p)

\* C27: under the Pem policy the skip step asked about a '-' at p that is
\* not followed by four more dashes inside the input (a run of 1 to 4
\* dashes at the very end included) does not move; the loop standing there
\* hands the '-' to the Base64 lookup and the call ends with the
\* unmapped-character panic for '-'; five dashes, wherever they stand, also
\* after digits on the same line, have the rest of the line ignored: the
\* state machine is fed what stands before them and after the line.
C27_ShortDashRuns ==
    skipper = Some("Pem") =>
        /\ \A p \in 0 .. Len(input) - 1 :
               ShortDashAt(p) => Skipper_skip("Pem", input, p) = p
        /\ (pc = "loop" /\ ShortDashAt(in_index)) =>
               /\ SkipTo(skipper, input, in_index) = in_index
               /\ DecoderState_update(state, input[in_index + 1])
                      = Panic([kind |-> "unmapped_char", ch |-> 45])
        /\ (Done /\ in_index < Len(input) /\ input[in_index + 1] = 45) =>
               /\ ShortDashAt(in_index)
               /\ result[1] = Panic([kind |-> "unmapped_char", ch |-> 45])
        /\ (pc = "loop" /\ in_index \in MarkerStarts) =>
               SkipTo(skipper, input, in_index) = NewlineAfter(in_index + 5)
        /\ fed = NonSkippedUpTo(in_index)
        /\ \A i \in 1 .. Len(fed) : fed[i] # 45

\* "-----Q\n-": the Q on the marker line was ignored, the dash on the next
\* line was refused.
C27_Witness ==
    /\ Done
    /\ skipper = Some("Pem")
    /\ input = << 45, 45, 45, 45, 45, 81, 10, 45 >>
    /\ markers = {<< 0, 6 >>}
    /\ in_index = 7
    /\ fed = << >>
    /\ result[1] = Panic([kind |-> "unmapped_char", ch |-> 45])


\* C28: with a skip policy, the policy is asked at every position before
\* the state machine is, and a position is decoded only where the policy
\* does not move: what the state machine was fed is what the policy left of
\* the input read so far; so under SkipWhitespace a whitespace byte is
\* always skipped, also when the Custom alphabet has it as a digit, and
\* under Pem no byte of a marker line is looked up in the alphabet.
C28_SkipBeforeLookup ==
    skipper # None =>
        /\ fed = NonSkippedUpTo(in_index)
        /\ \A i \in 1 .. in_index :
               ~Skipped(i) => SkipTo(skipper, input, i - 1) = i - 1
        /\ \A i \in 1 .. Len(fed) : ~IsWhitespace(fed[i])
        /\ (pc = "loop" /\ in_index < Len(input) /\ IsWhitespace(input[in_index + 1])) =>
               SkipTo(skipper, input, in_index) = in_index + 1
        /\ (Done /\ InputCharPanic(result[1])) =>
               /\ ~Skipped(in_index + 1)
               /\ SkipTo(skipper, input, in_index) = in_index
               /\ result[1].err.ch = input[in_index + 1]
        /\ \A mk \in markers :
               /\ \A i \in mk[1] + 1 .. mk[2] : Skipped(i)
               /\ mk[2] <= in_index

\* "- -" with the alphabet " -" under SkipWhitespace: the space, a digit of
\* the alphabet, was skipped.
C28_Witness ==
    /\ Done
    /\ skipper = Some("Whitespace")
    /\ sample.alphabet = SPACE_DASH_ALPHABET
    /\ input = << 45, 32, 45 >>
    /\ fed = << 45, 45 >>


(***************************************************************************)
(* Termination                                                             *)
(***************************************************************************)
\* The indices stay inside the input: in_index is at most its length, and
\* what Skipper::skip and detect_pem_header return from a position inside
\* the input lies between that position and the length.
IndexBounds ==
    /\ in_index \in 0 .. Len(input)
    /\ (pc = "loop" /\ in_index < Len(input)) =>
           /\ SkipTo(skipper, input, in_index) \in in_index .. Len(input)
           /\ LET header == Skipper_detect_pem_header(input, in_index) IN
              header # None => header[1] \in in_index + 5 .. Len(input)

\* A pass of the loop: in_index grows, by one past a whitespace byte or a
\* byte given to the state machine, by five or more past a marker; the
\* byte read is inside the input; or the call ends where it stands.
Progress ==
    /\ pc = "loop"
    /\ \/ /\ pc' = "done"
          /\ in_index' = in_index
       \/ /\ pc' = "loop"
          /\ in_index < Len(input)
          /\ in_index' > in_index
          /\ in_index' <= Len(input)
          /\ IF fed' # fed THEN in_index' = in_index + 1
             ELSE IF is_ascii_whitespace(input[in_index + 1]) THEN in_index' = in_index + 1
             ELSE /\ skipper = Some("Pem")
                  /\ in_index' >= in_index + 5

\* C29: for every decoder, skip policy and finite input the driver loop
\* ends; every pass of the loop makes in_index larger, by 1 for a
\* whitespace byte or a decoded byte and by 5 or more for a PEM marker;
\* in_index never passes len(input), and neither the driver nor
\* Skipper::skip / detect_pem_header reads the input at or past its length.
C29_Termination ==
    /\ <>Done
    /\ []IndexBounds
    /\ [][Progress]_vars

\* "Q-----\n" under Pem was read to its end: a digit, the marker, the newline.
C29_Witness ==
    /\ Done
    /\ skipper = Some("Pem")
    /\ input = << 81, 45, 45, 45, 45, 45, 10 >>
    /\ in_index = Len(input)
    /\ markers = {<< 1, 6 >>}
    /\ fed = << 81 >>


(***************************************************************************)
(* Which error a call ends with                                            *)
(***************************************************************************)
\* C30: the post-conditions on the length and on the final state are looked
\* at once, after the whole input was read, in the order overflow,
\* underflow, leftover state: while the loop runs nothing is reported,
\* however many bytes were put out; a character refused anywhere in the
\* input ends the call with the input-character panic, also when more than
\* N bytes were put out before it; a wrong length is reported also when
\* the final state is not final (hex "012" into 2 bytes is an underflow);
\* the leftover-state panic is reported only with exactly N bytes put out.
C30_ErrorPrecedence ==
    /\ pc = "loop" => result = None
    /\ Done =>
           LET r == result[1]
               overflow == Panic([kind |-> "overflow", emitted |-> Len(emitted),
                                  expected |-> N])
               underflow == Panic([kind |-> "underflow", emitted |-> Len(emitted),
                                   expected |-> N])
               leftover == Panic([kind |-> "leftover_state"])
           IN
           /\ in_index < Len(input) =>
                  /\ InputCharPanic(r)
                  /\ r.err.ch = input[in_index + 1]
                  /\ ~Accepted(input[in_index + 1])
           /\ in_index = Len(input) =>
                  /\ AllNonSkippedValid
                  /\ Len(emitted) > N => r = overflow
                  /\ Len(emitted) < N => r = underflow
                  /\ (Len(emitted) = N /\ ~RefFinal) => r = leftover
                  /\ (Len(emitted) = N /\ RefFinal) => r.ok
           /\ r = leftover => Len(emitted) = N
           /\ (~r.ok /\ r.err.kind \in {"overflow", "underflow", "leftover_state"})
                  => in_index = Len(input)

\* Hex "012" into 2 bytes: one byte out and a nibble pending; the underflow
\* is what is reported.
C30_Witness ==
    /\ Done
    /\ decoder.kind = "Hex"
    /\ input = << 48, 49, 50 >>
    /\ N = 2
    /\ state.pending # None
    /\ result[1] = Panic([kind |-> "underflow", emitted |-> 1, expected |-> 2])


(***************************************************************************)
(* Input bytes outside ASCII                                               *)
(***************************************************************************)
\* C31 as stated: in a Base64, Base64Url or Custom decode every non-skipped
\* input byte that has no table entry, each byte value in 128..255
\* included, ends the call with the unmapped-character panic naming it.
C31_UnmappedForEveryByte ==
    (Generic /\ Done /\ in_index < Len(input)) =>
        LET ch == input[in_index + 1] IN
        /\ ~Accepted(ch)
        /\ result[1] = Panic([kind |-> "unmapped_char", ch |-> ch])


(***************************************************************************)
(* Truncated input that is not noticed                                     *)
(***************************************************************************)
\* The digit characters among the first t characters of the input.
DigitCharsOf(t) ==
    LET text == SubSeq(input, 1, t) IN
    IF decoder.kind \in {"Base64", "Base64Url"}
    THEN SelectSeq(text, LAMBDA ch : ch # 61)
    ELSE text

\* The bits of the digits among the first t characters of the input.
BitsOfPrefix(t) ==
    LET chars == DigitCharsOf(t) IN
    Flatten([i \in 1 .. Len(chars) |-> DigitBits(DigitOf(chars[i]), RefK)])

\* The bits of `bits` after its last whole byte are all zero.
ZeroTail(bits) == \A i \in 8 * (Len(bits) \div 8) + 1 .. Len(bits) : bits[i] = 0

\* C32: the final state of a generic decoder is final whenever its partial
\* byte is 0, whatever filled_bits is, so a call whose digits leave only
\* zero bits after the last whole byte returns, also with whole digits
\* missing or surplus: every shortening of an accepted input to a prefix
\* whose left-over bits are zero is accepted too and decodes to the first
\* bytes of the result, and one character that is the zero digit (Base64
\* "A") decodes into the array of 0 bytes.
C32_UndetectedTruncation ==
    (Generic /\ skipper = None) =>
        /\ state # None =>
               (CustomDecoderState_is_final(state) <=> state.partial_byte = 0)
        /\ (AllCharsValid /\ Len(emitted) = N /\ ZeroTail(RefBits)) =>
               /\ result[1] = Ok(emitted)
               /\ state.filled_bits = Len(RefBits) - 8 * N
        /\ Returned =>
               \A t \in 0 .. Len(input) - 1 :
                   LET bits == BitsOfPrefix(t) IN
                   ZeroTail(bits) =>
                       do_decode(decoder, SubSeq(input, 1, t), None, Len(bits) \div 8)
                           = Ok(SubSeq(result[1].val, 1, Len(bits) \div 8))
        /\ (Done /\ Len(input) = 1 /\ IsDigit(input[1]) /\ N = 0) =>
               (DigitOf(input[1]) = 0 <=> result[1] = Ok(<< >>))

\* Base64 "A/AA" is three bytes; cut to "A/A" it is accepted as the first
\* two, cut to "A" as none.
C32_Witness ==
    /\ Returned
    /\ decoder = Decoder_Base64
    /\ input = << 65, 47, 65, 65 >>
    /\ result[1].val = << 3, 240, 0 >>
    /\ do_decode(decoder, << 65, 47, 65 >>, None, 2) = Ok(<< 3, 240 >>)
    /\ do_decode(decoder, << 65 >>, None, 0) = Ok(<< >>)


(***************************************************************************)
(* Alphabets with characters of several bytes                              *)
(***************************************************************************)
\* The least member of S, `none` when S is empty.
FirstOf(S, none) == IF S = {} THEN none ELSE CHOOSE i \in S : \A j \in S : i <= j

\* C33: Encoding::new takes the length of the alphabet in bytes of UTF-8
\* and looks at it before any character: a string with a character that
\* is not ASCII is refused as non-ASCII, naming the index of that
\* character, only when its length in bytes is 2, 4, 8, 16, 32 or 64 ("te"
\* with a sharp s: 3 characters, 4 bytes, index 2), and as of invalid
\* length otherwise, whatever its number of characters; a character that
\* occurs twice is reported where it occurs the second time, and only when
\* no byte before that place is non-ASCII.
C33_ByteLengthFirst ==
    (sample.how = "str" /\ pc # "new") =>
        LET chars == sample.plain
            alphabet == sample.alphabet
            len == Len(alphabet)
            Width(ch) == IF ch < 128 THEN 1 ELSE IF ch < 2048 THEN 2
                         ELSE IF ch < 65536 THEN 3 ELSE 4
            nonAscii == FirstOf({i \in 0 .. len - 1 : alphabet[i + 1] >= 128}, len)
            second == FirstOf({i \in 0 .. len - 1 :
                                  \E j \in 0 .. i - 1 : alphabet[j + 1] = alphabet[i + 1]},
                              len)
        IN
        /\ len = Len(chars) + Cardinality({i \in 1 .. Len(chars) : Width(chars[i]) >= 2})
                 + Cardinality({i \in 1 .. Len(chars) : Width(chars[i]) >= 3})
                 + Cardinality({i \in 1 .. Len(chars) : Width(chars[i]) >= 4})
        /\ len \notin ALPHABET_LENGTHS =>
               result = Some(Panic([kind |-> "invalid_alphabet_length", len |-> len]))
        /\ (len \in ALPHABET_LENGTHS /\ nonAscii < second) =>
               /\ result = Some(Panic([kind |-> "non_ascii_alphabet", index |-> nonAscii]))
               /\ chars[nonAscii + 1] >= 128
               /\ \A j \in 1 .. nonAscii : chars[j] < 128
        /\ (len \in ALPHABET_LENGTHS /\ second < nonAscii) =>
               result = Some(Panic([kind |-> "duplicate_alphabet_char",
                                    ch |-> alphabet[second + 1]]))
        /\ (len \in ALPHABET_LENGTHS /\ second = len /\ nonAscii = len) =>
               /\ decoder # None
               /\ Len(chars) = len

\* "te" with a sharp s: 3 characters, 4 bytes.
C33_Witness ==
    /\ Done
    /\ sample.how = "str"
    /\ sample.plain = TESS_CHARS
    /\ sample.alphabet = << 116, 101, 195, 159 >>
    /\ result = Some(Panic([kind |-> "non_ascii_alphabet", index |-> 2]))


(***************************************************************************)
(* The driver of lib.rs and the driver of decoder.rs                       *)
(***************************************************************************)
\* C34: do_decode of lib.rs, which asserts out_index < N when a byte is put
\* out, and do_decode of decoder.rs, which counts on and asserts after the
\* loop, return for the same decoder, skip policy, input and N: both do or
\* neither does, and the arrays returned are equal; for an input that is
\* refused the error may differ, and does so only when lib.rs stops at the
\* overflow and decoder.rs at a refused character after it.
C34_DriversAgree ==
    Done =>
        \A n \in 0 .. MaxN :
            LET new == IF n = N THEN result[1] ELSE do_decode(decoder, input, skipper, n)
                old == lib_do_decode(decoder, input, skipper, n)
            IN
            /\ new.ok <=> old.ok
            /\ new.ok => new.val = old.val
            /\ (~new.ok /\ old.err.kind # new.err.kind) =>
                   /\ old.err.kind = "overflow"
                   /\ InputCharPanic(new)

\* "QQ\n" under Pem into one byte: both return it; into no byte: both
\* refuse.
C34_Witness ==
    /\ Returned
    /\ skipper = Some("Pem")
    /\ input = << 81, 81, 10 >>
    /\ N = 1
    /\ result[1] = Ok(<< 65 >>)
    /\ lib_do_decode(decoder, input, skipper, 1) = Ok(<< 65 >>)
    /\ ~lib_do_decode(decoder, input, skipper, 0).ok
    /\ ~do_decode(decoder, input, skipper, 0).ok

=============================================================================
